---- MODULE Spec2Model ----
(***************************************************************************)
(* Saberis2Jobber: the order parser (SaberisOrder.from_json), the name and *)
(* description synthesizer (get_line_items_from_export) and the            *)
(* reconciliation handler (send_to_jobber).                                *)
(*                                                                         *)
(* Python strings are sequences of one-character strings, so that split,   *)
(* strip, lower, the regular expressions and concatenation are computed    *)
(* character by character.  Python dicts are sequences of <<key, value>>   *)
(* pairs in insertion order with unique keys.  Mutable dicts live in a     *)
(* heap (a sequence of dicts); a variable or a field holding a dict holds  *)
(* its index in the heap, so that copy() against sharing is visible.       *)
(***************************************************************************)
EXTENDS Integers, Sequences, FiniteSets, TLC

VARIABLES
    \* ---- SaberisOrder.from_json (jobber_models.py) ----
    raw_lines_list,         \* the "Item" list of the document being parsed
    idx,                    \* position of the for loop over raw_lines_list
    pc,                     \* "loop", "done" (Order returned) or "raised"
    heap,                   \* the dict objects allocated so far
    context,                \* heap index of the rolling context dict
    processed_lines,        \* the SaberisLineItem objects built so far
    catalog_to_total_cost,  \* dict catalog -> running sum of cost * quantity
    cumulative_catalogs,    \* set of raw catalog values seen
    \* ---- CatalogManager (gsheet/catalog_manager.py) ----
    worksheet,              \* rows of the backing sheet, header row first
    cm_cache,               \* self._cache: dict catalog id -> <<brand, markup>>
    last_updated,           \* self.last_updated
    now,                    \* time.time()
    \* ---- get_line_items_from_export (jobber_models.py), run on one item ----
    li,                     \* the SaberisLineItem the synthesizer is run on
    li_attributes,          \* its attributes dict
    ui_quantity,            \* the quantity factor chosen in the UI
    li_variant,             \* the attributes dict with one value changed
    synth_pc,               \* "first", "second", "variant" or "done"
    jobber_lines,           \* the lines synthesized: first run, second run, variant
    \* ---- Jobber (the remote system) ----
    remote_items,           \* line item nodes of the quote and of the job
    products,               \* the products and services (master catalog)
    next_id,                \* the next id Jobber gives out
    \* ---- send_to_jobber (main.py): the last request handled ----
    sync_pc,                \* "first", "second" (request awaited) or "done"
    request,                \* itemType and lineItems of the request
    products_before,        \* the master catalog the plan was made against
    existing_nodes,         \* nodes: the line items fetched for the diff
    all_desired_line_items, \* the aggregated desired items
    items_to_add,
    items_to_update,
    status,                 \* how the handler returned
    \* ---- SaberisOrder.unique_key (jobber_models.py) ----
    unique_key,             \* the key of the Order returned, once computed
    first_order,            \* document, lines and key of an earlier parse
    \* ---- SaberisOrder.from_json: the header of the document ----
    document,               \* the document handed to from_json
    header_pc,              \* "start", "assembled" or "raised"
    order_header,           \* username, created_at, customer_name, address
    \* ---- CatalogManager: the calls made on it ----
    cm_answer,              \* the last call: operation, argument, result
    store_reads,            \* number of worksheet.get_all_values() calls
    cm_calls,               \* number of calls made
    \* ---- two threads reading through one CatalogManager ----
    reader_pc,              \* per reader: "check", "fetch", "assign", "stamp",
                            \* "lookup" or "done"
    reader_call,            \* per reader: the operation and the catalog asked
    reader_rows,            \* per reader: all_rows, local to _refresh
    reader_answer,          \* per reader: the value returned
    cm_at_start,            \* cache and timestamp when the readers started
    \* ---- the exports sheet (GSHEET_SABERIS_EXPORTS) and its pruning ----
    exports_sheet,          \* the data rows of the sheet, top to bottom
    export_clock,           \* datetime.now() of the ingestion, as an integer
    sheet_at_call,          \* the rows when the last operation was called
    keep_count,             \* argument of the last prune_saberis_exports
    deleted,                \* value returned by the last prune_saberis_exports
    \* ---- ingest_saberis_exports ----
    ingest_pc,              \* "returned", "read", "docs" or "raised"
    api_docs,               \* guids of the documents the Saberis API holds
    unexported_docs,        \* the listing this pass received
    doc_idx,                \* position of the loop in unexported_docs
    processed_guids,        \* local set of guids taken as stored
    new_rows,               \* local list of rows to append
    requested,              \* guids asked for download during the call
    appended,               \* guids appended to the sheet during the call
    depth,                  \* depth of the recursion of the call
    \* ---- the OAuth state of jobber_auth_flow ----
    oauth_state_store,      \* _oauth_state_store
    issued,                 \* number of authorization URLs generated
    callback,               \* the last callback: state received, outcome
    accepted                \* the states of the accepted callbacks, in order

parseVars == <<raw_lines_list, idx, pc, heap, context, processed_lines,
               catalog_to_total_cost, cumulative_catalogs>>
cmVars == <<worksheet, cm_cache, last_updated, now>>
synthVars == <<li, li_attributes, ui_quantity, li_variant, synth_pc, jobber_lines>>
jobberVars == <<remote_items, products, next_id>>
syncVars == <<sync_pc, request, products_before, existing_nodes,
              all_desired_line_items, items_to_add, items_to_update, status>>
keyVars == <<unique_key, first_order>>
headerVars == <<document, header_pc, order_header>>
\* the variables of the components modelled further below
cmCallVars == <<cm_answer, store_reads, cm_calls>>
readerVars == <<reader_pc, reader_call, reader_rows, reader_answer, cm_at_start>>
exportVars == <<exports_sheet, export_clock, sheet_at_call, keep_count, deleted>>
ingestVars == <<ingest_pc, api_docs, unexported_docs, doc_idx, processed_guids,
                new_rows, requested, appended, depth>>
authVars == <<oauth_state_store, issued, callback, accepted>>
restVars == <<exportVars, ingestVars, authVars>>
otherVars == <<headerVars, cmCallVars, readerVars, restVars>>
vars == <<parseVars, cmVars, synthVars, jobberVars, syncVars, keyVars, otherVars>>

-----------------------------------------------------------------------------
(* Bounds of the model *)

\* longest document (number of records in the Item list)
MaxRecs == 4

\* most attributes of the line item the synthesizer is run on
MaxAttrs == 2

\* most line items in the lineItems list of a request
MaxDesired == 2

\* most records of a document of markers and other Text records
MaxMarkerRecs == 3

-----------------------------------------------------------------------------
(* String literals of the source, as character sequences *)

sCatalog == <<"C","a","t","a","l","o","g">>
sBrand == <<"B","r","a","n","d">>
sUnknownCatalog == <<"U","n","k","n","o","w","n"," ","C","a","t","a","l","o","g">>
sText == <<"t","e","x","t">>
sProduct == <<"p","r","o","d","u","c","t">>

WhiteSpace == {" ", "\t", "\n", "\r"}

\* str.lower() on the letters the model's strings use
LowerChar(c) ==
    CASE c = "A" -> "a" [] c = "B" -> "b" [] c = "C" -> "c" [] c = "D" -> "d"
      [] c = "E" -> "e" [] c = "F" -> "f" [] c = "G" -> "g" [] c = "H" -> "h"
      [] c = "I" -> "i" [] c = "J" -> "j" [] c = "K" -> "k" [] c = "L" -> "l"
      [] c = "M" -> "m" [] c = "N" -> "n" [] c = "O" -> "o" [] c = "P" -> "p"
      [] c = "Q" -> "q" [] c = "R" -> "r" [] c = "S" -> "s" [] c = "T" -> "t"
      [] c = "U" -> "u" [] c = "V" -> "v" [] c = "W" -> "w" [] c = "X" -> "x"
      [] c = "Y" -> "y" [] c = "Z" -> "z" [] OTHER -> c

Lower(s) == [i \in 1..Len(s) |-> LowerChar(s[i])]

\* str.strip(): drop leading and trailing whitespace
RECURSIVE LStrip(_)
LStrip(s) == IF s # <<>> /\ Head(s) \in WhiteSpace THEN LStrip(Tail(s)) ELSE s

RECURSIVE RStrip(_)
RStrip(s) ==
    IF s # <<>> /\ s[Len(s)] \in WhiteSpace
    THEN RStrip(SubSeq(s, 1, Len(s) - 1))
    ELSE s

Strip(s) == RStrip(LStrip(s))

\* "=" in description
Contains(s, c) == \E i \in 1..Len(s) : s[i] = c

\* index of the first occurrence of c in s (s contains c)
FirstIndex(s, c) == CHOOSE i \in 1..Len(s) : s[i] = c /\ \A j \in 1..(i - 1) : s[j] # c

\* a split at the last occurrence of c, not the first
SplitLast(s, c) ==
    LET i == CHOOSE k \in 1..Len(s) : s[k] = c /\ \A j \in (k + 1)..Len(s) : s[j] # c
    IN  <<SubSeq(s, 1, i - 1), SubSeq(s, i + 1, Len(s))>>

\* description.split("=", 1) for a description that contains "="
SplitFirst(s, c) ==
    LET i == FirstIndex(s, c)
    IN  <<SubSeq(s, 1, i - 1), SubSeq(s, i + 1, Len(s))>>

\* substring test: s[i], s[i+1] = a, b
PairAt(s, i, a, b) == i >= 1 /\ i + 1 <= Len(s) /\ s[i] = a /\ s[i + 1] = b

\* a pattern that matches no description
DimensionPatternNever(s) == FALSE

\* dimension_pattern.search(description) for the pattern W=.*H=.*D=
\* ('.' matches every character but a newline)
DimensionPatternSearch(s) ==
    \E i \in 1..Len(s) :
        /\ PairAt(s, i, "W", "=")
        /\ \E j \in (i + 2)..Len(s) :
              /\ PairAt(s, j, "H", "=")
              /\ \E k \in (j + 2)..Len(s) :
                    /\ PairAt(s, k, "D", "=")
                    /\ \A m \in (i + 2)..(k - 1) : s[m] # "\n"

-----------------------------------------------------------------------------
(* Python dicts: sequences of <<key, value>>, insertion ordered *)

DictKeys(d) == {d[i][1] : i \in 1..Len(d)}
DictHas(d, k) == k \in DictKeys(d)
DictIndex(d, k) == CHOOSE i \in 1..Len(d) : d[i][1] = k

\* d.get(k, default)
DictGet(d, k, default) == IF DictHas(d, k) THEN d[DictIndex(d, k)][2] ELSE default

\* d[k] = v : replaces in place, or appends a new key at the end
DictSet(d, k, v) ==
    IF DictHas(d, k)
    THEN [d EXCEPT ![DictIndex(d, k)] = <<k, v>>]
    ELSE Append(d, <<k, v>>)

\* a pop that removes nothing
DictPopNothing(d, k) == d

\* the dict left by d.pop(k, default)
DictPop(d, k) ==
    IF DictHas(d, k)
    THEN LET i == DictIndex(d, k)
         IN  SubSeq(d, 1, i - 1) \o SubSeq(d, i + 1, Len(d))
    ELSE d

\* d.copy(): a new dict object with the same items; the result is the new
\* heap and the reference of the copy
DictCopy(h, ref) == [heap |-> Append(h, h[ref]), ref |-> Len(h) + 1]

-----------------------------------------------------------------------------
(* Values of the raw JSON document.  A field of a raw record is missing,  *)
(* null, a string or a number; floats are modelled by integers.           *)

Missing == [t |-> "missing", s |-> <<>>, n |-> 0]
Null == [t |-> "null", s |-> <<>>, n |-> 0]
Str(s) == [t |-> "str", s |-> s, n |-> 0]
Num(n) == [t |-> "num", s |-> <<>>, n |-> n]

Digits == {"0", "1", "2", "3", "4", "5", "6", "7", "8", "9"}

DigitValue(c) ==
    CASE c = "0" -> 0 [] c = "1" -> 1 [] c = "2" -> 2 [] c = "3" -> 3
      [] c = "4" -> 4 [] c = "5" -> 5 [] c = "6" -> 6 [] c = "7" -> 7
      [] c = "8" -> 8 [] c = "9" -> 9

RECURSIVE DigitsValue(_)
DigitsValue(s) ==
    IF s = <<>> THEN 0
    ELSE 10 * DigitsValue(SubSeq(s, 1, Len(s) - 1)) + DigitValue(s[Len(s)])

\* float(s) for a string: surrounding whitespace is ignored, an optional
\* sign and decimal digits are accepted, anything else is a ValueError
ParseFloat(s) ==
    LET body == Strip(s)
        neg == body # <<>> /\ Head(body) = "-"
        digs == IF neg THEN Tail(body) ELSE body
    IN  IF digs # <<>> /\ \A i \in 1..Len(digs) : digs[i] \in Digits
        THEN [ok |-> TRUE, val |-> IF neg THEN 0 - DigitsValue(digs) ELSE DigitsValue(digs)]
        ELSE [ok |-> FALSE, val |-> 0]

\* obj.get(key, default) where default is a number
GetOr(field, default) == IF field.t = "missing" THEN Num(default) ELSE field

\* obj.get(key, "") for a field that is a string when present
GetStr(field) == IF field.t = "str" THEN field.s ELSE <<>>

-----------------------------------------------------------------------------
(* CatalogManager: the sheet-backed cache that get_brand reads *)

MaxAgeSeconds == 90
DEFAULT_MARKUP == 35       \* 0.035, in thousandths
CATALOG_COL == 1
BRAND_COL == 2
MARKUP_COL == 3

\* stale from the age max_age_seconds on
IsStaleAtMaxAge(t, updated) == (t - updated) >= MaxAgeSeconds

\* _is_stale
IsStale(t, updated) == (t - updated) > MaxAgeSeconds

\* the (brand, markup) tuple _refresh stores for one data row
RowEntry(row) ==
    LET catalog_id == row[CATALOG_COL]
        brand == IF Len(row) >= BRAND_COL /\ row[BRAND_COL] # <<>>
                 THEN row[BRAND_COL] ELSE catalog_id
        parsed == IF Len(row) >= MARKUP_COL THEN ParseFloat(row[MARKUP_COL])
                  ELSE [ok |-> FALSE, val |-> 0]
        markup == IF parsed.ok /\ parsed.val > 0 THEN parsed.val ELSE DEFAULT_MARKUP
    IN  <<brand, markup>>

\* the loop of _refresh over data_rows
RECURSIVE BuildCache(_, _)
BuildCache(rows, cache) ==
    IF rows = <<>> THEN cache
    ELSE LET row == Head(rows)
         IN  IF row = <<>> \/ row[CATALOG_COL] = <<>>
             THEN BuildCache(Tail(rows), cache)
             ELSE BuildCache(Tail(rows), DictSet(cache, row[CATALOG_COL], RowEntry(row)))

\* a reload that takes the header row for a data row
RefreshWithHeader(sheet) == BuildCache(sheet, <<>>)

\* _refresh: the cache rebuilt from all rows but the header row
Refresh(sheet) == BuildCache(IF sheet = <<>> THEN <<>> ELSE Tail(sheet), <<>>)

\* _ensure_fresh: the manager's state after the call
EnsureFresh(sheet, cache, updated, t) ==
    IF IsStale(t, updated)
    THEN [cache |-> Refresh(sheet), last_updated |-> t]
    ELSE [cache |-> cache, last_updated |-> updated]

\* get_brand, on a cache that _ensure_fresh has been through
GetBrand(cache, catalog_id) == DictGet(cache, catalog_id, <<catalog_id, 0>>)[1]

\* get_markup, on a cache that _ensure_fresh has been through
GetMarkup(cache, catalog_id) == DictGet(cache, catalog_id, <<<<>>, DEFAULT_MARKUP>>)[2]

\* worksheet.find(catalog_id, in_column=CATALOG_COL): the number of the
\* first row whose first cell is catalog_id, 0 for None
Find(sheet, catalog_id) ==
    LET hits == {r \in 1..Len(sheet) :
                    sheet[r] # <<>> /\ sheet[r][CATALOG_COL] = catalog_id}
    IN  IF hits = {} THEN 0 ELSE CHOOSE r \in hits : \A q \in hits : r <= q

\* worksheet.update_cell(r, c, value): the row is padded with empty cells
UpdateCell(sheet, r, c, value) ==
    LET row == sheet[r]
        padded == [i \in 1..(IF Len(row) >= c THEN Len(row) ELSE c) |->
                      IF i <= Len(row) THEN row[i] ELSE <<>>]
    IN  [sheet EXCEPT ![r] = [padded EXCEPT ![c] = value]]

\* worksheet.append_row(row)
AppendRow(sheet, row) == Append(sheet, row)

\* the try block of set_markup, lines 103-113, when no call fails: the
\* markup cell of the catalog's row is written, or a row is appended
SheetAfterSetMarkup(sheet, catalog_id, cell_value) ==
    LET cell == Find(sheet, catalog_id)
    IN  IF cell # 0
        THEN UpdateCell(sheet, cell, MARKUP_COL, cell_value)
        ELSE AppendRow(sheet, <<catalog_id, <<>>, cell_value>>)

\* set_markup when the store fails with error (a GSpreadException or an
\* exception of another class) or does not fail ("none"): the sheet, the
\* timestamp and what the caller gets
SetMarkup(sheet, updated, catalog_id, cell_value, error) ==
    IF error = "none"
    THEN [sheet |-> SheetAfterSetMarkup(sheet, catalog_id, cell_value),
          last_updated |-> 0, returned |-> "true"]
    ELSE IF error = "GSpreadException"
    THEN [sheet |-> sheet, last_updated |-> updated, returned |-> "false"]
    ELSE [sheet |-> sheet, last_updated |-> updated, returned |-> "raised"]

-----------------------------------------------------------------------------
(* SaberisLineItem.from_json *)

\* safe_float
safe_float(value) ==
    IF value.t = "null" \/ (value.t = "str" /\ value.s = <<>>) THEN 0
    ELSE IF value.t = "num" THEN value.n
    ELSE IF value.t = "str" /\ ParseFloat(value.s).ok THEN ParseFloat(value.s).val
    ELSE 0

\* str(obj.get(key) or "")
StrOrEmpty(field) == IF field.t = "str" THEN field.s ELSE <<>>

\* a line item whose catalog field is the brand
LineItemFromJsonCatalogIsBrand(h, obj, ctx) ==
    LET cp == DictCopy(h, ctx)
        d0 == cp.heap[cp.ref]
        catalog == DictGet(d0, sCatalog, sUnknownCatalog)
        d1 == DictPop(d0, sCatalog)
        brand == DictGet(d1, sBrand, catalog)
        d2 == DictPop(d1, sBrand)
    IN  [heap |-> [cp.heap EXCEPT ![cp.ref] = d2],
         item |-> [type |-> "Product",
                   catalog |-> brand,
                   brand |-> brand,
                   attributes |-> cp.ref,
                   description |-> StrOrEmpty(obj.Description),
                   quantity |-> safe_float(GetOr(obj.Quantity, 1)),
                   list_price |-> safe_float(GetOr(obj.List, 0)),
                   cost |-> safe_float(GetOr(obj.Cost, 0))]]

\* SaberisLineItem.from_json(obj, ctx): copies the dict it is given, pops
\* the catalog and the brand out of the copy and keeps the copy as the
\* item's attributes.  The result is the new heap and the item.
LineItemFromJson(h, obj, ctx) ==
    LET cp == DictCopy(h, ctx)
        d0 == cp.heap[cp.ref]
        catalog == DictGet(d0, sCatalog, sUnknownCatalog)
        d1 == DictPop(d0, sCatalog)
        brand == DictGet(d1, sBrand, catalog)
        d2 == DictPop(d1, sBrand)
    IN  [heap |-> [cp.heap EXCEPT ![cp.ref] = d2],
         item |-> [type |-> "Product",
                   catalog |-> catalog,
                   brand |-> brand,
                   attributes |-> cp.ref,
                   description |-> StrOrEmpty(obj.Description),
                   quantity |-> safe_float(GetOr(obj.Quantity, 1)),
                   list_price |-> safe_float(GetOr(obj.List, 0)),
                   cost |-> safe_float(GetOr(obj.Cost, 0))]]

-----------------------------------------------------------------------------
(* SaberisOrder.from_json: the loop over the raw line items *)

\* `not raw_item_dict`: the record has no key at all
IsEmptyRecord(r) ==
    /\ r.Type.t = "missing" /\ r.Description.t = "missing"
    /\ r.Quantity.t = "missing" /\ r.List.t = "missing" /\ r.Cost.t = "missing"

ItemType(r) == Lower(GetStr(r.Type))
ItemDescription(r) == GetStr(r.Description)

\* the record is a "Text" line that holds an "="
IsMarker(r) ==
    /\ ~IsEmptyRecord(r)
    /\ ItemType(r) = sText
    /\ Contains(ItemDescription(r), "=")

IsProduct(r) ==
    /\ ~IsEmptyRecord(r)
    /\ ~IsMarker(r)
    /\ ItemType(r) = sProduct

\* (mutant of ContextAfterMarker: a key that is already set keeps its value)
ContextAfterMarkerKeepFirst(ctx, key, value, brand) ==
    IF DictHas(ctx, key) THEN ctx
    ELSE IF key = sCatalog
    THEN DictSet(DictSet(ctx, key, value), sBrand, brand)
    ELSE DictSet(ctx, key, value)

\* the context dict after the marker key=value; brand is get_brand(value)
ContextAfterMarker(ctx, key, value, brand) ==
    IF key = sCatalog
    THEN DictSet(DictSet(ctx, key, value), sBrand, brand)
    ELSE DictSet(ctx, key, value)

\* (mutant of CostKey: the cost is accumulated under the item's brand)
CostKeyBrand(ctx, item) == item.brand

\* the key under which a product's cost is accumulated (line 373)
CostKey(ctx, item) == DictGet(ctx, sCatalog, <<>>)

\* catalog_to_total_cost after adding cost * quantity of the item under key
AccumulateCost(totals, key, item) ==
    DictSet(totals, key, DictGet(totals, key, 0) + item.cost * item.quantity)

CurrentRecord == raw_lines_list[idx]

\* an empty record, a dimensional Text line, a Text line without "=" or a
\* record of another kind: the loop moves on
SkipRecord ==
    /\ pc = "loop" /\ idx <= Len(raw_lines_list)
    /\ LET r == CurrentRecord
       IN  \/ IsEmptyRecord(r)
           \/ IsMarker(r) /\ DimensionPatternSearch(ItemDescription(r))
           \/ ~IsEmptyRecord(r) /\ ~IsMarker(r) /\ ~IsProduct(r)
    /\ idx' = idx + 1
    /\ UNCHANGED <<raw_lines_list, pc, heap, context, processed_lines,
                   catalog_to_total_cost, cumulative_catalogs, cmVars, synthVars, jobberVars, syncVars, keyVars, otherVars>>

\* a Text line key=value: the context is updated in place
MarkerRecord ==
    /\ pc = "loop" /\ idx <= Len(raw_lines_list)
    /\ IsMarker(CurrentRecord)
    /\ ~DimensionPatternSearch(ItemDescription(CurrentRecord))
    /\ LET parts == SplitFirst(ItemDescription(CurrentRecord), "=")
           key == Strip(parts[1])
           value == Strip(parts[2])
           cm == IF key = sCatalog
                 THEN EnsureFresh(worksheet, cm_cache, last_updated, now)
                 ELSE [cache |-> cm_cache, last_updated |-> last_updated]
       IN  /\ heap' = [heap EXCEPT ![context] =
                          ContextAfterMarker(@, key, value, GetBrand(cm.cache, value))]
           /\ cumulative_catalogs' =
                  IF key = sCatalog THEN cumulative_catalogs \cup {value}
                  ELSE cumulative_catalogs
           /\ cm_cache' = cm.cache
           /\ last_updated' = cm.last_updated
    /\ idx' = idx + 1
    /\ UNCHANGED <<raw_lines_list, pc, context, processed_lines,
                   catalog_to_total_cost, worksheet, now, synthVars, jobberVars, syncVars, keyVars, otherVars>>

\* a Product line: an enriched item is built from a copy of the context and
\* its cost is accumulated; context["Catalog"] raises KeyError when no
\* Catalog marker came before
ProductRecord ==
    /\ pc = "loop" /\ idx <= Len(raw_lines_list)
    /\ IsProduct(CurrentRecord)
    /\ LET cp == DictCopy(heap, context)
           made == LineItemFromJson(cp.heap, CurrentRecord, cp.ref)
       IN  /\ heap' = made.heap
           /\ IF DictHas(made.heap[context], sCatalog)
              THEN /\ catalog_to_total_cost' =
                          AccumulateCost(catalog_to_total_cost,
                                         CostKey(made.heap[context], made.item),
                                         made.item)
                   /\ processed_lines' = Append(processed_lines, made.item)
                   /\ idx' = idx + 1
                   /\ pc' = pc
              ELSE /\ pc' = "raised"
                   /\ UNCHANGED <<catalog_to_total_cost, processed_lines, idx, otherVars>>
    /\ UNCHANGED <<raw_lines_list, context, cumulative_catalogs, cmVars, synthVars, jobberVars, syncVars, keyVars, otherVars>>

\* the loop is over: the Order is returned
ReturnOrder ==
    /\ pc = "loop" /\ idx > Len(raw_lines_list)
    /\ pc' = "done"
    /\ UNCHANGED <<raw_lines_list, idx, heap, context, processed_lines,
                   catalog_to_total_cost, cumulative_catalogs, cmVars, synthVars, jobberVars, syncVars, keyVars, otherVars>>

-----------------------------------------------------------------------------
(* get_line_items_from_export: name and description of one line item *)

sPricelevelLower == <<"p","r","i","c","e","l","e","v","e","l">>
sSpeciesFinish == <<"S","p","e","c","i","e","s"," ","/"," ","F","i","n","i","s","h">>
sFinishSpeciesColon ==
    <<"F","i","n","i","s","h"," ","/"," ","S","p","e","c","i","e","s",":"," ">>
sColonSpace == <<":"," ">>
sBar == <<" ","|"," ">>
sS2JOpen == <<" ","|"," ","S","2","J","(">>
sClose == <<")">>
sNewline == <<"\n">>

FIELDs_TO_PUT_IN_TITLE ==
    { <<"D","o","o","r"," ","S","e","l","e","c","t","i","o","n">>,
      <<"C","a","b","i","n","e","t"," ","S","t","y","l","e">> }

\* remove_curly_braces_and_content: re.sub(r"\{.*?\}", "", text); from a
\* "{" the shortest run up to a "}" is removed, unless a newline is between
RECURSIVE remove_curly_braces_and_content(_)
remove_curly_braces_and_content(text) ==
    IF text = <<>> THEN <<>>
    ELSE IF Head(text) = "{" /\ Contains(Tail(text), "}")
            /\ \A m \in 2..FirstIndex(Tail(text), "}") : text[m] # "\n"
         THEN remove_curly_braces_and_content(
                  SubSeq(text, FirstIndex(Tail(text), "}") + 2, Len(text)))
         ELSE <<Head(text)>> \o remove_curly_braces_and_content(Tail(text))

\* sep.join(parts)
RECURSIVE Join(_, _)
Join(parts, sep) ==
    IF parts = <<>> THEN <<>>
    ELSE IF Len(parts) = 1 THEN parts[1]
    ELSE parts[1] \o sep \o Join(Tail(parts), sep)

\* filter(None, parts): the non-empty strings
FilterNone(parts) == SelectSeq(parts, LAMBDA x : x # <<>>)

\* (mutant of ItemsOrders: the items come in any order, as those of a set)
ItemsOrdersAny(d) ==
    {[i \in 1..Len(d) |-> d[f[i]]] :
        f \in {g \in [1..Len(d) -> 1..Len(d)] : \A a, b \in 1..Len(d) : g[a] = g[b] => a = b}}

\* the orders in which li.attributes.items() can yield the items: a dict
\* yields them in insertion order
ItemsOrders(d) == {d}

\* (mutant of DescriptionParts: a line for every item, none skipped or added)
DescriptionPartsKeepAll(items) ==
    [i \in 1..Len(items) |-> items[i][1] \o sColonSpace \o items[i][2]]

\* the description lines the loop appends for the items, in order
RECURSIVE DescriptionParts(_)
DescriptionParts(items) ==
    IF items = <<>> THEN <<>>
    ELSE LET key == Head(items)[1]
             value == Head(items)[2]
         IN  IF Lower(Strip(key)) = sPricelevelLower
             THEN DescriptionParts(Tail(items))
             ELSE (IF key = sSpeciesFinish
                   THEN <<sFinishSpeciesColon \o value>> ELSE <<>>)
                  \o <<key \o sColonSpace \o value>>
                  \o DescriptionParts(Tail(items))

\* the values the loop appends to base_name_parts, in order
RECURSIVE TitleParts(_)
TitleParts(items) ==
    IF items = <<>> THEN <<>>
    ELSE LET key == Head(items)[1]
             value == Head(items)[2]
         IN  IF Lower(Strip(key)) = sPricelevelLower
             THEN TitleParts(Tail(items))
             ELSE (IF key \in FIELDs_TO_PUT_IN_TITLE THEN <<value>> ELSE <<>>)
                  \o TitleParts(Tail(items))

\* (mutant of BaseProductName: the first part is the catalog, not the brand)
BaseProductNameOfCatalog(item, items) ==
    Join(FilterNone(<<item.catalog, remove_curly_braces_and_content(item.description)>>
                    \o TitleParts(items)),
         sBar)

BaseProductName(item, items) ==
    Join(FilterNone(<<item.brand, remove_curly_braces_and_content(item.description)>>
                    \o TitleParts(items)),
         sBar)

JobberDescription(items) == Join(DescriptionParts(items), sNewline)

\* (mutant of SignatureStr: the signature is the base name alone)
SignatureStrNameOnly(base_product_name, jobber_description) == base_product_name

\* signature_str
SignatureStr(base_product_name, jobber_description) ==
    base_product_name \o jobber_description

\* hashlib.md5(...).hexdigest()[:6].  The digest is modelled as free of
\* collisions: distinct signatures have distinct hashes.
ShortHash(signature_str) == signature_str

\* the QuoteLineEditItemGQL built for one line item, its attributes yielded
\* in the order items
SynthesizeLine(item, items, factor) ==
    LET base_product_name == BaseProductName(item, items)
        jobber_description == JobberDescription(items)
        short_hash == ShortHash(SignatureStr(base_product_name, jobber_description))
    IN  [name |-> base_product_name \o sS2JOpen \o short_hash \o sClose,
         quantity |-> item.quantity * factor,
         unitPrice |-> item.cost,
         description |-> jobber_description,
         unitCost |-> IF item.cost > 0 THEN Num(item.cost) ELSE Null,
         taxable |-> FALSE,
         saveToProductsAndServices |-> TRUE,
         productOrServiceId |-> Null]

\* the synthesizer is not running
NoItem == [type |-> "Product", catalog |-> <<>>, brand |-> <<>>, attributes |-> 0,
           description |-> <<>>, quantity |-> 0, list_price |-> 0, cost |-> 0]

SynthIdle ==
    /\ li = NoItem
    /\ li_attributes = <<>>
    /\ ui_quantity = 0
    /\ li_variant = <<>>
    /\ synth_pc = "done"
    /\ jobber_lines = <<>>

\* one run of the loop body on the line item
SynthesizeFirst ==
    /\ synth_pc = "first"
    /\ \E items \in ItemsOrders(li_attributes) :
           jobber_lines' = <<SynthesizeLine(li, items, ui_quantity)>>
    /\ synth_pc' = "second"
    /\ UNCHANGED <<li, li_attributes, ui_quantity, li_variant, parseVars, cmVars,
                   jobberVars, syncVars, keyVars, otherVars>>

\* a second run on the same line item
SynthesizeSecond ==
    /\ synth_pc = "second"
    /\ \E items \in ItemsOrders(li_attributes) :
           jobber_lines' = Append(jobber_lines, SynthesizeLine(li, items, ui_quantity))
    /\ synth_pc' = "variant"
    /\ UNCHANGED <<li, li_attributes, ui_quantity, li_variant, parseVars, cmVars,
                   jobberVars, syncVars, keyVars, otherVars>>

\* a run on the line item with one attribute value changed
SynthesizeVariant ==
    /\ synth_pc = "variant"
    /\ \E items \in ItemsOrders(li_variant) :
           jobber_lines' = Append(jobber_lines, SynthesizeLine(li, items, ui_quantity))
    /\ synth_pc' = "done"
    /\ UNCHANGED <<li, li_attributes, ui_quantity, li_variant, parseVars, cmVars,
                   jobberVars, syncVars, keyVars, otherVars>>

-----------------------------------------------------------------------------
(* send_to_jobber: aggregation, catalog step, diff and the API calls *)

\* (mutant of AddQuantity: the later quantity replaces the earlier one)
AddQuantityOverwrite(kept, item) == [kept EXCEPT !.quantity = item.quantity]

\* aggregated_items[item_name]["quantity"] += item["quantity"]
AddQuantity(kept, item) == [kept EXCEPT !.quantity = @ + item.quantity]

\* the loop that fills aggregated_items: dict name -> item
RECURSIVE AggregateItems(_, _)
AggregateItems(items, aggregated_items) ==
    IF items = <<>> THEN aggregated_items
    ELSE LET item == Head(items)
         IN  AggregateItems(
                 Tail(items),
                 IF DictHas(aggregated_items, item.name)
                 THEN DictSet(aggregated_items, item.name,
                              AddQuantity(DictGet(aggregated_items, item.name, item), item))
                 ELSE DictSet(aggregated_items, item.name, item))

\* list(d.values())
DictValues(d) == [i \in 1..Len(d) |-> d[i][2]]

\* existing_items_map = {item['name']: item for item in nodes}
RECURSIVE ExistingItemsMap(_, _)
ExistingItemsMap(nodes, map) ==
    IF nodes = <<>> THEN map
    ELSE ExistingItemsMap(Tail(nodes), DictSet(map, Head(nodes).name, Head(nodes)))

NoNode == [id |-> 0, name |-> <<>>, quantity |-> 0]

\* (mutant of NeedsUpdate: only a larger desired quantity is sent)
NeedsUpdateWhenLarger(existing_item, desired_item) ==
    existing_item.id # 0 /\ existing_item.quantity < desired_item.quantity

\* existing_id and existing_item.get('quantity') != desired_item.get('quantity')
NeedsUpdate(existing_item, desired_item) ==
    existing_item.id # 0 /\ existing_item.quantity # desired_item.quantity

\* (mutant of IsNew: an item whose quantity changed is added as well)
IsNewOrChanged(existing_items_map, desired_item) ==
    \/ ~DictHas(existing_items_map, desired_item.name)
    \/ DictGet(existing_items_map, desired_item.name, NoNode).quantity
           # desired_item.quantity

\* the else branch of `if existing_item`: no fetched node has the name
IsNew(existing_items_map, desired_item) ==
    ~DictHas(existing_items_map, desired_item.name)

\* the item as appended to items_to_add
ItemToAdd(item_type, desired_item, existing_product_names) ==
    IF item_type = "Job"
    THEN [desired_item EXCEPT
             !.saveToProductsAndServices = ~(desired_item.name \in existing_product_names),
             !.unitPrice = 0]
    ELSE desired_item

\* the two loops of step 2 (the same for a quote and for a job, but for the
\* item that is appended to items_to_add)
RECURSIVE Diff(_, _, _, _)
Diff(item_type, desired_items, existing_items_map, existing_product_names) ==
    IF desired_items = <<>> THEN [add |-> <<>>, update |-> <<>>]
    ELSE LET desired_item == Head(desired_items)
             existing_item == DictGet(existing_items_map, desired_item.name, NoNode)
             rest == Diff(item_type, Tail(desired_items), existing_items_map,
                          existing_product_names)
         IN  [add |-> (IF IsNew(existing_items_map, desired_item)
                       THEN <<ItemToAdd(item_type, desired_item, existing_product_names)>>
                       ELSE <<>>) \o rest.add,
              update |-> (IF DictHas(existing_items_map, desired_item.name)
                             /\ NeedsUpdate(existing_item, desired_item)
                          THEN <<[lineItemId |-> existing_item.id,
                                  quantity |-> desired_item.quantity]>>
                          ELSE <<>>) \o rest.update]

\* Jobber, on a successful edit of line items: the quantities are set
ApplyUpdates(nodes, updates) ==
    [i \in 1..Len(nodes) |->
        IF \E u \in 1..Len(updates) : updates[u].lineItemId = nodes[i].id
        THEN [nodes[i] EXCEPT !.quantity =
                 updates[CHOOSE u \in 1..Len(updates) :
                             updates[u].lineItemId = nodes[i].id].quantity]
        ELSE nodes[i]]

\* Jobber, on a successful creation of line items: a node per item, ids
\* given out from first on
CreatedNodes(adds, first) ==
    [i \in 1..Len(adds) |->
        [id |-> first + i - 1, name |-> adds[i].name, quantity |-> adds[i].quantity]]

\* Jobber: the items created with saveToProductsAndServices become products
SavedItems(adds) == SelectSeq(adds, LAMBDA a : a.saveToProductsAndServices)
CreatedProducts(adds, first) ==
    [i \in 1..Len(SavedItems(adds)) |->
        [id |-> first + i - 1, name |-> SavedItems(adds)[i].name]]

\* the aggregated items step 1 passes to update_or_create_product_or_service
NeedsCatalogStep(desired_item) ==
    desired_item.name # <<>> /\ desired_item.unitCost.t # "null"

\* no request is being handled
NoRequest == [itemType |-> "", lineItems |-> <<>>]

SyncIdle ==
    /\ remote_items = [Quote |-> <<>>, Job |-> <<>>]
    /\ products = <<>>
    /\ next_id = 1
    /\ sync_pc = "done"
    /\ request = NoRequest
    /\ products_before = <<>>
    /\ existing_nodes = <<>>
    /\ all_desired_line_items = <<>>
    /\ items_to_add = <<>>
    /\ items_to_update = <<>>
    /\ status = "none"

NextPhase == IF sync_pc = "first" THEN "second" ELSE "done"

\* names of line items: two with the same S2J hash, one without the suffix
sNameX == <<"X"," ","|"," ","S","2","J","(","a","1","b","2","c","3",")">>
sNameXOld == <<"x"," ","|"," ","S","2","J","(","a","1","b","2","c","3",")">>
sNameM == <<"M">>

\* an item of the payload as get_line_items_from_export builds it
DesiredItem(name, quantity, unitCost) ==
    [name |-> name, quantity |-> quantity, unitPrice |-> 20, unitCost |-> unitCost,
     saveToProductsAndServices |-> TRUE, productOrServiceId |-> Null]

DesiredItems ==
    { DesiredItem(sNameX, 2, Null), DesiredItem(sNameX, 3, Num(15)),
      DesiredItem(sNameM, 2, Null) }

RECURSIVE SeqsUpTo(_, _)
SeqsUpTo(S, n) ==
    IF n = 0 THEN {<<>>}
    ELSE LET shorter == SeqsUpTo(S, n - 1)
         IN  shorter \cup {Append(q, x) : q \in shorter, x \in S}

Requests ==
    [itemType : {"Quote", "Job", "Invoice"}, lineItems : SeqsUpTo(DesiredItems, MaxDesired)]

\* the requests that can arrive: any request first, then the same line items
\* again (a re-run), for the quote or for the job
Incoming ==
    IF sync_pc = "second"
    THEN {req \in Requests : req.lineItems = request.lineItems}
    ELSE Requests

\* what the handler leaves behind when it returns at `returned`
Returned(req, catalog, aggregated, nodes, diff, returned) ==
    /\ request' = req
    /\ products_before' = catalog
    /\ all_desired_line_items' = aggregated
    /\ existing_nodes' = nodes
    /\ items_to_add' = diff.add
    /\ items_to_update' = diff.update
    /\ status' = returned
    /\ sync_pc' = NextPhase

NoDiff == [add |-> <<>>, update |-> <<>>]

\* step 3: edit_line_items first, create_line_items second; a call that fails
\* changes nothing and the handler answers 500
CallJobber(item_type, diff, first, update_ok, add_ok) ==
    LET edited == IF diff.update # <<>> /\ update_ok
                  THEN ApplyUpdates(remote_items[item_type], diff.update)
                  ELSE remote_items[item_type]
        added == diff.add # <<>> /\ add_ok
        nodes == IF added THEN CreatedNodes(diff.add, first) ELSE <<>>
        saved == IF added
                 THEN CreatedProducts(diff.add, first + Len(nodes))
                 ELSE <<>>
    IN  [remote_items |-> [remote_items EXCEPT ![item_type] = edited \o nodes],
         products |-> saved,
         next_id |-> first + Len(nodes) + Len(saved),
         returned |-> IF \/ diff.update # <<>> /\ ~update_ok
                         \/ diff.add # <<>> /\ ~add_ok
                      THEN "500 api" ELSE "200"]

\* the outcomes a call can have: none but success when it is not made
Outcomes(called) == IF called THEN BOOLEAN ELSE {TRUE}

\* the early returns: no token (401, the body is not read), a missing field
\* (400), and an itemType that is neither Quote nor Job (400, after the
\* aggregation)
RejectRequest ==
    /\ sync_pc \in {"first", "second"}
    /\ \/ Returned(NoRequest, products, <<>>, <<>>, NoDiff, "401")
       \/ \E req \in Incoming :
             /\ req.lineItems = <<>>
             /\ Returned(req, products, <<>>, <<>>, NoDiff, "400 missing")
       \/ \E req \in Incoming :
             /\ req.lineItems # <<>>
             /\ req.itemType \notin {"Quote", "Job"}
             /\ Returned(req, products, DictValues(AggregateItems(req.lineItems, <<>>)),
                         <<>>, NoDiff, "400 type")
    /\ UNCHANGED <<jobberVars, parseVars, cmVars, synthVars, keyVars, otherVars>>

\* a request for a quote: aggregation, fetch of the quote (None when the
\* fetch fails), diff, API calls
SendToQuote ==
    /\ sync_pc \in {"first", "second"}
    /\ \E req \in Incoming, fetch_ok \in BOOLEAN :
          /\ req.lineItems # <<>>
          /\ req.itemType = "Quote"
          /\ LET aggregated == DictValues(AggregateItems(req.lineItems, <<>>))
                 nodes == IF fetch_ok THEN remote_items.Quote ELSE <<>>
                 diff == Diff("Quote", aggregated, ExistingItemsMap(nodes, <<>>), {})
             IN  \E update_ok \in Outcomes(diff.update # <<>>),
                    add_ok \in Outcomes(diff.add # <<>>) :
                    LET done == CallJobber("Quote", diff, next_id, update_ok, add_ok)
                    IN  /\ Returned(req, products, aggregated, nodes, diff, done.returned)
                        /\ remote_items' = done.remote_items
                        /\ products' = products \o done.products
                        /\ next_id' = done.next_id
    /\ UNCHANGED <<parseVars, cmVars, synthVars, keyVars, otherVars>>

\* update_or_create_product_or_service, called in step 1 for the items that
\* carry a unit cost: the entries the master catalog gains
ProductsAfterCatalogStep(costed, creates) ==
    IF creates
    THEN [i \in 1..Len(costed) |-> [id |-> next_id + i - 1, name |-> costed[i].name]]
    ELSE <<>>

\* a request for a job: aggregation, catalog step, fetch of the job, fetch of
\* the product names when an item is added, diff, API calls
SendToJob ==
    /\ sync_pc \in {"first", "second"}
    /\ \E req \in Incoming :
          /\ req.lineItems # <<>>
          /\ req.itemType = "Job"
          /\ LET aggregated == DictValues(AggregateItems(req.lineItems, <<>>))
                 costed == SelectSeq(aggregated, NeedsCatalogStep)
             IN  \E step1_ok \in Outcomes(costed # <<>>) :
                    IF ~step1_ok
                    THEN /\ Returned(req, products, aggregated, <<>>, NoDiff, "500 catalog")
                         /\ UNCHANGED jobberVars
                    ELSE \E creates \in {FALSE} \cup Outcomes(costed # <<>>),
                            fetch_ok \in BOOLEAN :
                            LET created == ProductsAfterCatalogStep(costed, creates)
                                prods == products \o created
                                nodes == IF fetch_ok THEN remote_items.Job ELSE <<>>
                                map == ExistingItemsMap(nodes, <<>>)
                                adds == \E i \in 1..Len(aggregated) : IsNew(map, aggregated[i])
                            IN  \E names_ok \in Outcomes(adds) :
                                   LET names == IF names_ok
                                                THEN {prods[i].name : i \in 1..Len(prods)}
                                                ELSE {}
                                       diff == Diff("Job", aggregated, map, names)
                                   IN  \E update_ok \in Outcomes(diff.update # <<>>),
                                          add_ok \in Outcomes(diff.add # <<>>) :
                                          LET done == CallJobber("Job", diff,
                                                                 next_id + Len(created),
                                                                 update_ok, add_ok)
                                          IN  /\ Returned(req, prods, aggregated, nodes,
                                                          diff, done.returned)
                                              /\ remote_items' = done.remote_items
                                              /\ products' = prods \o done.products
                                              /\ next_id' = done.next_id
    /\ UNCHANGED <<parseVars, cmVars, synthVars, keyVars, otherVars>>

-----------------------------------------------------------------------------
(* SaberisOrder.unique_key: username, date, first catalog code and a hash *)
(* of the line items                                                      *)

sNA == <<"N","A">>
sCatalogEquals == <<"C","a","t","a","l","o","g","=">>

\* s.startswith(prefix)
StartsWith(s, prefix) ==
    Len(s) >= Len(prefix) /\ SubSeq(s, 1, Len(prefix)) = prefix

\* a dict serialized in its insertion order
JsonDumpsInsertionOrder(d) == d

\* json.dumps(d, sort_keys=True) of a dict d of strings: the text lists the
\* items by key, so it is determined by the set of items and determines it
JsonDumpsSortKeys(d) == {d[i] : i \in 1..Len(d)}

\* json.dumps([asdict(li) for li in self.lines], sort_keys=True): the fields
\* of each line item in the order of the lines, the attributes by key
Payload(h, lines) ==
    [n \in 1..Len(lines) |->
        [lines[n] EXCEPT !.attributes = JsonDumpsSortKeys(h[@])]]

\* hashlib.md5(payload).hexdigest()[:4], taken as free of collisions
Md5Prefix(payload) == payload

\* first_catalog_code: the value of the first line of type Text whose
\* description starts with Catalog=, or NA
FirstCatalogCode(lines) ==
    LET hits == {n \in 1..Len(lines) :
                    /\ lines[n].type = "Text"
                    /\ StartsWith(lines[n].description, sCatalogEquals)}
    IN  IF hits = {} THEN sNA
        ELSE LET n == CHOOSE m \in hits : \A k \in hits : m <= k
             IN  Strip(SplitFirst(lines[n].description, "=")[2])

\* f"{self.username}_{date_str}_{catalog_code}_{md5_part}", by component
UniqueKeyOf(username, date_str, h, lines) ==
    [username |-> username,
     date_str |-> date_str,
     catalog_code |-> FirstCatalogCode(lines),
     md5_part |-> Md5Prefix(Payload(h, lines))]

NoKey == [username |-> <<>>, date_str |-> <<>>, catalog_code |-> <<>>, md5_part |-> <<>>]
NoOrder == [document |-> <<>>, lines |-> <<>>, key |-> NoKey]

KeyIdle ==
    /\ unique_key = NoKey
    /\ first_order = NoOrder

-----------------------------------------------------------------------------
(* The components that are not running *)

NoDocument ==
    [has_document |-> FALSE, has_order |-> FALSE,
     Username |-> Missing, Date |-> Missing,
     Customer |-> [present |-> FALSE, Name |-> Missing],
     Shipping |-> [present |-> FALSE, StateOrProvince |-> Missing],
     Group |-> [present |-> FALSE, has_item |-> FALSE, Item |-> <<>>]]
NoHeader ==
    [username |-> <<>>, created_at |-> <<>>, customer_name |-> <<>>,
     province |-> <<>>, country |-> <<>>]

HeaderIdle ==
    /\ document = NoDocument
    /\ header_pc = "assembled"
    /\ order_header = NoHeader

NoAnswer ==
    [op |-> "none", catalog_id |-> <<>>, brand |-> <<>>, markup |-> 0,
     returned |-> "none", store_error |-> "none"]

CmCallIdle ==
    /\ cm_answer = NoAnswer
    /\ store_reads = 0
    /\ cm_calls = 0

Readers == {1, 2}

ReadersIdle ==
    /\ reader_pc = [r \in Readers |-> "done"]
    /\ reader_call = [r \in Readers |-> [op |-> "none", catalog_id |-> <<>>]]
    /\ reader_rows = [r \in Readers |-> <<>>]
    /\ reader_answer = [r \in Readers |-> [brand |-> <<>>, markup |-> 0]]
    /\ cm_at_start = [cache |-> <<>>, last_updated |-> 0]

NotPruned == 0 - 1

ExportsIdle ==
    /\ exports_sheet = <<>>
    /\ export_clock = 0
    /\ sheet_at_call = <<>>
    /\ keep_count = 0
    /\ deleted = NotPruned

IngestIdle ==
    /\ ingest_pc = "returned"
    /\ api_docs = <<>>
    /\ unexported_docs = <<>>
    /\ doc_idx = 1
    /\ processed_guids = {}
    /\ new_rows = <<>>
    /\ requested = <<>>
    /\ appended = <<>>
    /\ depth = 0

NoState == 0
NoCallback == [received |-> NoState, stored |-> NoState, outcome |-> "none"]

AuthIdle ==
    /\ oauth_state_store = NoState
    /\ issued = 0
    /\ callback = NoCallback
    /\ accepted = <<>>

RestIdle ==
    /\ ExportsIdle
    /\ IngestIdle
    /\ AuthIdle

OthersIdle ==
    /\ HeaderIdle
    /\ CmCallIdle
    /\ ReadersIdle
    /\ RestIdle

-----------------------------------------------------------------------------
(* The documents and the sheets the parser is run on *)

sA == <<"A">>
sB == <<"B">>
sAcme == <<"A","c","m","e">>
sDoorSelection == <<"D","o","o","r"," ","S","e","l","e","c","t","i","o","n">>
sPriceLevel == <<"P","r","i","c","e","L","e","v","e","l">>
sShaker == <<"S","h","a","k","e","r">>
sOak == <<"O","a","k">>

RawRecord(type, description, quantity, list, cost) ==
    [Type |-> type, Description |-> description, Quantity |-> quantity,
     List |-> list, Cost |-> cost]

TextRecord(description) ==
    RawRecord(Str(<<"T","e","x","t">>), Str(description), Missing, Missing, Missing)

ProductRecords ==
    { RawRecord(Str(<<"P","r","o","d","u","c","t">>),
                Str(<<"T","P","{","1","0","c","}","1","8">>),
                Str(<<"2">>), Num(20), Num(15)),
      RawRecord(Str(<<"P","R","O","D","U","C","T">>),
                Str(<<"B","{","x","}">>),
                Missing, Missing, Str(<<"3">>)) }

MarkerRecords ==
    { TextRecord(sCatalog \o <<"=">> \o sA),
      TextRecord(sCatalog \o <<"=">> \o sB),
      TextRecord(sDoorSelection \o <<"=">> \o sShaker),
      RawRecord(Str(<<"T","E","X","T">>),
                Str(<<" ">> \o sPriceLevel \o <<" ","="," ","1","=","2"," ">>),
                Missing, Missing, Missing) }

OtherRecords ==
    { TextRecord(<<"W","=","1","2"," ","H","=","3","0"," ","D","=","2","4">>),
      RawRecord(Str(<<"N","o","t","e">>), Str(<<"x","=","y">>),
                Missing, Missing, Missing),
      RawRecord(Missing, Missing, Missing, Missing, Missing) }

RawRecords == ProductRecords \cup MarkerRecords \cup OtherRecords

Documents == UNION {[1..n -> RawRecords] : n \in 0..MaxRecs}

HeaderRow == <<<<"C","a","t","a","l","o","g">>, <<"B","r","a","n","d">>,
               <<"M","a","r","k","u","p">>>>

\* the sheet when the manager was constructed, and the sheet as edited since
SheetAtStart == <<HeaderRow, <<sA, <<>>, <<"5","0">>>>>>
SheetNow == <<HeaderRow, <<sA, sAcme, <<"5","0">>>>, <<sB>>>>

\* the manager was constructed (and refreshed) at time StartTime
StartTime == 1000

InitCatalogManager ==
    /\ worksheet = SheetNow
    /\ cm_cache = Refresh(SheetAtStart)
    /\ last_updated = StartTime
    /\ now \in {StartTime + MaxAgeSeconds, StartTime + MaxAgeSeconds + 1}

InitParse ==
    /\ raw_lines_list \in Documents
    /\ idx = 1
    /\ pc = "loop"
    /\ heap = <<<<>>>>
    /\ context = 1
    /\ processed_lines = <<>>
    /\ catalog_to_total_cost = <<>>
    /\ cumulative_catalogs = {}
    /\ InitCatalogManager
    /\ SynthIdle
    /\ SyncIdle
    /\ KeyIdle
    /\ OthersIdle

NextParse ==
    \/ SkipRecord
    \/ MarkerRecord
    \/ ProductRecord
    \/ ReturnOrder

SpecParse == InitParse /\ [][NextParse]_vars

\* the parser is not running
ParseIdle ==
    /\ raw_lines_list = <<>>
    /\ idx = 1
    /\ pc = "done"
    /\ heap = <<<<>>>>
    /\ context = 1
    /\ processed_lines = <<>>
    /\ catalog_to_total_cost = <<>>
    /\ cumulative_catalogs = {}

CatalogManagerIdle ==
    /\ worksheet = SheetNow
    /\ cm_cache = Refresh(SheetNow)
    /\ last_updated = StartTime
    /\ now = StartTime

-----------------------------------------------------------------------------
(* The line items the synthesizer is run on *)

sHinge == <<"H","i","n","g","e">>
AttrKeys == {sDoorSelection, sPriceLevel, sSpeciesFinish, sHinge}
AttrValues == {sShaker, sOak, <<>>}

\* the dicts of at most MaxAttrs attributes
AttrDicts ==
    {d \in UNION {[1..n -> AttrKeys \X AttrValues] : n \in 0..MaxAttrs} :
        \A a, b \in 1..Len(d) : d[a][1] = d[b][1] => a = b}

\* d with the value of one attribute changed (d itself when it is empty)
Variants(d) ==
    IF d = <<>> THEN {d}
    ELSE {[d EXCEPT ![i] = <<d[i][1], v>>] :
             i \in 1..Len(d), v \in AttrValues} \ {d}

InitSynth ==
    /\ ParseIdle
    /\ CatalogManagerIdle
    /\ \E brand \in {<<>>, sAcme},
          description \in {<<>>, <<"T","P","{","1","0","c","}","1","8">>},
          cost \in {0, 15} :
           li = [NoItem EXCEPT !.catalog = sA, !.brand = brand, !.attributes = 1,
                               !.description = description, !.quantity = 2,
                               !.cost = cost]
    /\ li_attributes \in AttrDicts
    /\ li_variant \in Variants(li_attributes)
    /\ ui_quantity \in {1, 2}
    /\ synth_pc = "first"
    /\ jobber_lines = <<>>
    /\ SyncIdle
    /\ KeyIdle
    /\ OthersIdle

NextSynth ==
    \/ SynthesizeFirst
    \/ SynthesizeSecond
    \/ SynthesizeVariant

SpecSynth == InitSynth /\ [][NextSynth]_vars

-----------------------------------------------------------------------------
(* Product records whose numeric fields are missing, null, empty, text or *)
(* numbers, each parsed after a Catalog marker                             *)

QuantityFields ==
    { Missing, Null, Str(<<>>), Str(<<"x">>), Str(<<"2">>), Str(<<" ","3"," ">>), Num(2) }
CostFields == { Missing, Null, Str(<<>>), Str(<<"x">>), Str(<<"3">>), Num(15) }
ListFields == { Missing, Str(<<"x">>), Num(20) }

NumericDocuments ==
    { << TextRecord(sCatalog \o <<"=">> \o sA),
         RawRecord(Str(<<"P","r","o","d","u","c","t">>), Str(<<"T","P">>),
                   quantity, list, cost) >> :
        quantity \in QuantityFields, list \in ListFields, cost \in CostFields }

InitNumeric ==
    /\ raw_lines_list \in NumericDocuments
    /\ idx = 1
    /\ pc = "loop"
    /\ heap = <<<<>>>>
    /\ context = 1
    /\ processed_lines = <<>>
    /\ catalog_to_total_cost = <<>>
    /\ cumulative_catalogs = {}
    /\ InitCatalogManager
    /\ SynthIdle
    /\ SyncIdle
    /\ KeyIdle
    /\ OthersIdle

NextNumeric ==
    \/ MarkerRecord
    \/ ProductRecord
    \/ ReturnOrder

SpecNumeric == InitNumeric /\ [][NextNumeric]_vars

-----------------------------------------------------------------------------
(* Documents of markers: a key set twice, a value that holds "=", Text    *)
(* records that set nothing, other kinds, and one product                  *)

MarkerAlphabet ==
    { TextRecord(sCatalog \o <<"=">> \o sA),
      TextRecord(sCatalog \o <<"=">> \o sB),
      TextRecord(sDoorSelection \o <<"=">> \o sShaker),
      TextRecord(sDoorSelection \o <<" ", "=", " ">> \o sOak),
      RawRecord(Str(<<"T","E","X","T">>),
                Str(<<" ">> \o sPriceLevel \o <<" ","="," ","1","=","2"," ">>),
                Missing, Missing, Missing),
      TextRecord(<<"N","o","t","e">>),
      TextRecord(<<"W","=","1","2"," ","H","=","3","0"," ","D","=","2","4">>),
      RawRecord(Str(<<"N","o","t","e">>), Str(<<"x","=","y">>),
                Missing, Missing, Missing),
      RawRecord(Missing, Missing, Missing, Missing, Missing),
      RawRecord(Str(<<"P","r","o","d","u","c","t">>), Str(<<"T","P">>),
                Str(<<"2">>), Missing, Num(15)) }

MarkerDocuments == UNION {[1..n -> MarkerAlphabet] : n \in 0..MaxMarkerRecs}

InitMarkers ==
    /\ raw_lines_list \in MarkerDocuments
    /\ idx = 1
    /\ pc = "loop"
    /\ heap = <<<<>>>>
    /\ context = 1
    /\ processed_lines = <<>>
    /\ catalog_to_total_cost = <<>>
    /\ cumulative_catalogs = {}
    /\ InitCatalogManager
    /\ now = StartTime + MaxAgeSeconds + 1
    /\ SynthIdle
    /\ SyncIdle
    /\ KeyIdle
    /\ OthersIdle

NextMarkers ==
    \/ SkipRecord
    \/ MarkerRecord
    \/ ProductRecord
    \/ ReturnOrder

SpecMarkers == InitMarkers /\ [][NextMarkers]_vars

-----------------------------------------------------------------------------
(* Two parses and their keys: a document, then the same document again,   *)
(* with two neighbouring records exchanged, or with one product changed   *)

\* most records of a document whose key is computed
MaxKeyRecs == 4

sUsername == <<"u","1">>
sDateStr == <<"2","0","2","4","0","1","0","2">>

KeyProduct(description, quantity, list, cost) ==
    RawRecord(Str(<<"P","r","o","d","u","c","t">>), Str(description),
              Num(quantity), Num(list), Num(cost))

KeyAlphabet ==
    { TextRecord(sCatalog \o <<"=">> \o sA),
      TextRecord(sCatalog \o <<"=">> \o sB),
      TextRecord(sDoorSelection \o <<"=">> \o sShaker),
      TextRecord(sPriceLevel \o <<"=">> \o <<"1">>),
      KeyProduct(<<"T","P">>, 2, 30, 15) }

\* the product with one field changed
ChangedProducts ==
    { KeyProduct(<<"T","Q">>, 2, 30, 15),
      KeyProduct(<<"T","P">>, 3, 30, 15),
      KeyProduct(<<"T","P">>, 2, 31, 15),
      KeyProduct(<<"T","P">>, 2, 30, 16) }

KeyDocuments == UNION {[1..n -> KeyAlphabet] : n \in 0..MaxKeyRecs}

\* doc with the records at i and i + 1 exchanged
Exchanged(doc, i) ==
    [n \in 1..Len(doc) |->
        IF n = i THEN doc[i + 1] ELSE IF n = i + 1 THEN doc[i] ELSE doc[n]]

\* the documents parsed after doc
KeyVariants(doc) ==
    {doc}
    \cup {Exchanged(doc, i) : i \in 1..(Len(doc) - 1)}
    \cup {[doc EXCEPT ![i] = r] :
             i \in {n \in 1..Len(doc) : IsProduct(doc[n])}, r \in ChangedProducts}

\* the line items with their attributes dicts in place of the references
LinesWithAttributes(h, lines) ==
    [n \in 1..Len(lines) |-> [lines[n] EXCEPT !.attributes = h[@]]]

\* order.unique_key() on the Order returned
UniqueKey ==
    /\ pc = "done"
    /\ unique_key = NoKey
    /\ unique_key' = UniqueKeyOf(sUsername, sDateStr, heap, processed_lines)
    /\ UNCHANGED <<first_order, parseVars, cmVars, synthVars, jobberVars, syncVars, otherVars>>

\* from_json is called again, on a variant of the document
ParseAgain ==
    /\ pc = "done"
    /\ unique_key # NoKey
    /\ first_order = NoOrder
    /\ first_order' = [document |-> raw_lines_list,
                       lines |-> LinesWithAttributes(heap, processed_lines),
                       key |-> unique_key]
    /\ raw_lines_list' \in KeyVariants(raw_lines_list)
    /\ idx' = 1
    /\ pc' = "loop"
    /\ heap' = <<<<>>>>
    /\ context' = 1
    /\ processed_lines' = <<>>
    /\ catalog_to_total_cost' = <<>>
    /\ cumulative_catalogs' = {}
    /\ unique_key' = NoKey
    /\ UNCHANGED <<cmVars, synthVars, jobberVars, syncVars, otherVars>>

InitKey ==
    /\ raw_lines_list \in KeyDocuments
    /\ idx = 1
    /\ pc = "loop"
    /\ heap = <<<<>>>>
    /\ context = 1
    /\ processed_lines = <<>>
    /\ catalog_to_total_cost = <<>>
    /\ cumulative_catalogs = {}
    /\ InitCatalogManager
    /\ now = StartTime + MaxAgeSeconds + 1
    /\ SynthIdle
    /\ SyncIdle
    /\ KeyIdle
    /\ OthersIdle

NextKey ==
    \/ MarkerRecord
    \/ ProductRecord
    \/ ReturnOrder
    \/ UniqueKey
    \/ ParseAgain

SpecKey == InitKey /\ [][NextKey]_vars

-----------------------------------------------------------------------------
(* SaberisOrder.from_json: the header, and the documents with parts missing *)

sUnknown == <<"u","n","k","n","o","w","n">>
sUnnamedClient == <<"U","n","n","a","m","e","d"," ","C","l","i","e","n","t">>
sEpoch == <<"1","9","7","0","-","0","1","-","0","1">>
sUS == <<"U","S">>
sBob == <<"B","o","b">>

CANADIAN_PROVINCE_TERRITORY_CODES ==
    { <<"A","B">>, <<"B","C">>, <<"M","B">>, <<"N","B">>, <<"N","L">>,
      <<"N","S">>, <<"N","T">>, <<"N","U">>, <<"O","N">>, <<"P","E">>,
      <<"Q","C">>, <<"S","K">>, <<"Y","T">> }

\* node.get(key) where node is {} when the parent had no such node
FieldOf(present, field) == IF present THEN field ELSE Missing

\* str(value or default)
StrOr(field, default) ==
    IF field.t = "str" /\ field.s # <<>> THEN field.s ELSE default

\* datetime.strptime(date_str, "%Y.%m.%d"), ValueError caught: the date as
\* digits yyyymmdd, or 1 January 1970
IsDigit(c) == c \in {"0","1","2","3","4","5","6","7","8","9"}
MatchesDateFormat(s) ==
    /\ Len(s) = 10
    /\ \A i \in {1, 2, 3, 4, 6, 7, 9, 10} : IsDigit(s[i])
    /\ s[5] = "." /\ s[8] = "."
    /\ DigitsValue(SubSeq(s, 6, 7)) \in 1..12
    /\ DigitsValue(SubSeq(s, 9, 10)) \in 1..28
CreatedAt(date_str) ==
    IF MatchesDateFormat(date_str)
    THEN SubSeq(date_str, 1, 4) \o SubSeq(date_str, 6, 7) \o SubSeq(date_str, 9, 10)
    ELSE <<"1","9","7","0","0","1","0","1">>

\* the header fields of the Order, lines 292-314
HeaderOf(doc) ==
    LET has_order == doc.has_document /\ doc.has_order
        has_customer == has_order /\ doc.Customer.present
        has_shipping == has_order /\ doc.Shipping.present
    IN  [username |-> StrOr(FieldOf(has_order, doc.Username), sUnknown),
         created_at |-> CreatedAt(StrOr(FieldOf(has_order, doc.Date), sEpoch)),
         customer_name |->
             StrOr(FieldOf(has_customer, doc.Customer.Name), sUnnamedClient),
         province |->
             StrOr(FieldOf(has_shipping, doc.Shipping.StateOrProvince), <<>>),
         country |-> sUS]

\* order_node.get("Group") is a dict
HasGroup(doc) == doc.has_document /\ doc.has_order /\ doc.Group.present

\* single_group_dict.get("Item", [])
ItemsOf(doc) == IF doc.Group.has_item THEN doc.Group.Item ELSE <<>>

\* from_json up to the loop: the header is read, then the item list;
\* order_node.get("Group") is None when there is no Group, and None.get
\* raises AttributeError
AssembleHeader ==
    /\ header_pc = "start"
    /\ IF HasGroup(document)
       THEN /\ order_header' = HeaderOf(document)
            /\ raw_lines_list' = ItemsOf(document)
            /\ pc' = "loop"
            /\ header_pc' = "assembled"
       ELSE /\ header_pc' = "raised"
            /\ UNCHANGED <<order_header, raw_lines_list, pc>>
    /\ UNCHANGED <<document, idx, heap, context, processed_lines,
                   catalog_to_total_cost, cumulative_catalogs, cmVars,
                   synthVars, jobberVars, syncVars, keyVars, cmCallVars, readerVars, restVars>>

Customers ==
    { [present |-> FALSE, Name |-> Missing],
      [present |-> TRUE, Name |-> Missing],
      [present |-> TRUE, Name |-> Str(sBob)] }

Shippings ==
    { [present |-> FALSE, StateOrProvince |-> Missing] }
    \cup { [present |-> TRUE, StateOrProvince |-> p] :
             p \in {Missing, Str(<<"O","N">>), Str(<<"Q","C">>), Str(<<"N","Y">>)} }

Groups ==
    { [present |-> FALSE, has_item |-> FALSE, Item |-> <<>>],
      [present |-> TRUE, has_item |-> FALSE, Item |-> <<>>] }
    \cup { [present |-> TRUE, has_item |-> TRUE, Item |-> items] :
             items \in { <<>>,
                         << TextRecord(sCatalog \o <<"=">> \o sA),
                            KeyProduct(<<"T","P">>, 2, 30, 15) >> } }

\* {} and {"SaberisOrderDocument": {}}, then documents with an order node
HeaderDocuments ==
    { NoDocument, [NoDocument EXCEPT !.has_document = TRUE] }
    \cup [ has_document : {TRUE}, has_order : {TRUE},
           Username : {Missing, Str(sUsername)},
           Date : {Missing, Str(<<"2","0","2","4",".","0","1",".","0","2">>),
                   Str(<<"2","0","2","4","-","0","1","-","0","2">>)},
           Customer : Customers,
           Shipping : Shippings,
           Group : Groups ]

InitHeader ==
    /\ document \in HeaderDocuments
    /\ header_pc = "start"
    /\ order_header = NoHeader
    /\ raw_lines_list = <<>>
    /\ idx = 1
    /\ pc = "start"
    /\ heap = <<<<>>>>
    /\ context = 1
    /\ processed_lines = <<>>
    /\ catalog_to_total_cost = <<>>
    /\ cumulative_catalogs = {}
    /\ InitCatalogManager
    /\ now = StartTime + MaxAgeSeconds + 1
    /\ SynthIdle
    /\ SyncIdle
    /\ KeyIdle
    /\ CmCallIdle
    /\ ReadersIdle
    /\ RestIdle

NextHeader ==
    \/ AssembleHeader
    \/ MarkerRecord
    \/ ProductRecord
    \/ ReturnOrder

SpecHeader == InitHeader /\ [][NextHeader]_vars

-----------------------------------------------------------------------------
(* Calls on the CatalogManager: reads, writes that succeed or fail, and   *)
(* the clock                                                              *)

\* most calls made on the manager
MaxCalls == 3

\* the instants at which calls are made: the cache built at StartTime or at
\* a later instant is as old as the maximum age, or one second older
Instants ==
    {StartTime + MaxAgeSeconds, StartTime + MaxAgeSeconds + 1,
     StartTime + 2 * MaxAgeSeconds + 1, StartTime + 2 * MaxAgeSeconds + 2}

sC == <<"C">>
CatalogIds == {sA, sB, sC}

\* the markups written and the text of their cells
Markups == {[n |-> 20, cell |-> <<"2","0">>], [n |-> 7, cell |-> <<"7">>]}

\* how a call on the worksheet ends
StoreErrors == {"none", "GSpreadException", "other"}

GetBrandCall ==
    /\ cm_calls < MaxCalls
    /\ \E catalog_id \in CatalogIds :
          LET cm == EnsureFresh(worksheet, cm_cache, last_updated, now)
          IN  /\ cm_cache' = cm.cache
              /\ last_updated' = cm.last_updated
              /\ store_reads' = IF IsStale(now, last_updated)
                                THEN store_reads + 1 ELSE store_reads
              /\ cm_answer' = [NoAnswer EXCEPT !.op = "get_brand",
                                               !.catalog_id = catalog_id,
                                               !.brand = GetBrand(cm.cache, catalog_id)]
    /\ cm_calls' = cm_calls + 1
    /\ UNCHANGED <<worksheet, now, parseVars, synthVars, jobberVars, syncVars,
                   keyVars, headerVars, readerVars, restVars>>

GetMarkupCall ==
    /\ cm_calls < MaxCalls
    /\ \E catalog_id \in CatalogIds :
          LET cm == EnsureFresh(worksheet, cm_cache, last_updated, now)
          IN  /\ cm_cache' = cm.cache
              /\ last_updated' = cm.last_updated
              /\ store_reads' = IF IsStale(now, last_updated)
                                THEN store_reads + 1 ELSE store_reads
              /\ cm_answer' = [NoAnswer EXCEPT !.op = "get_markup",
                                               !.catalog_id = catalog_id,
                                               !.markup = GetMarkup(cm.cache, catalog_id)]
    /\ cm_calls' = cm_calls + 1
    /\ UNCHANGED <<worksheet, now, parseVars, synthVars, jobberVars, syncVars,
                   keyVars, headerVars, readerVars, restVars>>

SetMarkupCall ==
    /\ cm_calls < MaxCalls
    /\ \E catalog_id \in CatalogIds, markup \in Markups, error \in StoreErrors :
          LET after == SetMarkup(worksheet, last_updated, catalog_id, markup.cell, error)
          IN  /\ worksheet' = after.sheet
              /\ last_updated' = after.last_updated
              /\ cm_answer' = [NoAnswer EXCEPT !.op = "set_markup",
                                               !.catalog_id = catalog_id,
                                               !.markup = markup.n,
                                               !.returned = after.returned,
                                               !.store_error = error]
    /\ cm_calls' = cm_calls + 1
    /\ UNCHANGED <<cm_cache, now, store_reads, parseVars, synthVars, jobberVars,
                   syncVars, keyVars, headerVars, readerVars, restVars>>

\* time passes, up to a later instant
Tick ==
    /\ \E t \in Instants :
          /\ t > now
          /\ now' = t
    /\ UNCHANGED <<worksheet, cm_cache, last_updated, cmCallVars, parseVars,
                   synthVars, jobberVars, syncVars, keyVars, headerVars, readerVars, restVars>>

InitCatalog ==
    /\ InitCatalogManager
    /\ CmCallIdle
    /\ ParseIdle
    /\ SynthIdle
    /\ SyncIdle
    /\ KeyIdle
    /\ HeaderIdle
    /\ ReadersIdle
    /\ RestIdle

NextCatalog ==
    \/ GetBrandCall
    \/ GetMarkupCall
    \/ SetMarkupCall
    \/ Tick

SpecCatalog == InitCatalog /\ [][NextCatalog]_vars

-----------------------------------------------------------------------------
(* Two readers on one CatalogManager: get_brand and get_markup, statement *)
(* by statement, the sheet unchanged and the clock at one instant         *)

ReaderCalls == [op : {"get_brand", "get_markup"}, catalog_id : CatalogIds]

\* if self._is_stale(): (line 77)
ReaderCheck(r) ==
    /\ reader_pc[r] = "check"
    /\ reader_pc' = [reader_pc EXCEPT ![r] =
                        IF IsStale(now, last_updated) THEN "fetch" ELSE "lookup"]
    /\ UNCHANGED <<reader_call, reader_rows, reader_answer, cm_at_start, cmVars,
                   parseVars, synthVars, jobberVars, syncVars, keyVars,
                   headerVars, cmCallVars, restVars>>

\* all_rows = self.worksheet.get_all_values() (line 39)
ReaderFetch(r) ==
    /\ reader_pc[r] = "fetch"
    /\ reader_rows' = [reader_rows EXCEPT ![r] = worksheet]
    /\ reader_pc' = [reader_pc EXCEPT ![r] = "assign"]
    /\ UNCHANGED <<reader_call, reader_answer, cm_at_start, cmVars,
                   parseVars, synthVars, jobberVars, syncVars, keyVars,
                   headerVars, cmCallVars, restVars>>

\* the loop over the rows, then self._cache = cache (lines 41-71)
ReaderAssign(r) ==
    /\ reader_pc[r] = "assign"
    /\ cm_cache' = Refresh(reader_rows[r])
    /\ reader_pc' = [reader_pc EXCEPT ![r] = "stamp"]
    /\ UNCHANGED <<reader_call, reader_rows, reader_answer, cm_at_start,
                   worksheet, last_updated, now,
                   parseVars, synthVars, jobberVars, syncVars, keyVars,
                   headerVars, cmCallVars, restVars>>

\* self.last_updated = time.time() (line 72)
ReaderStamp(r) ==
    /\ reader_pc[r] = "stamp"
    /\ last_updated' = now
    /\ reader_pc' = [reader_pc EXCEPT ![r] = "lookup"]
    /\ UNCHANGED <<reader_call, reader_rows, reader_answer, cm_at_start,
                   worksheet, cm_cache, now,
                   parseVars, synthVars, jobberVars, syncVars, keyVars,
                   headerVars, cmCallVars, restVars>>

\* return self._cache.get(...) (lines 85, 93)
ReaderLookup(r) ==
    /\ reader_pc[r] = "lookup"
    /\ reader_answer' =
          [reader_answer EXCEPT ![r] =
              IF reader_call[r].op = "get_brand"
              THEN [brand |-> GetBrand(cm_cache, reader_call[r].catalog_id),
                    markup |-> 0]
              ELSE [brand |-> <<>>,
                    markup |-> GetMarkup(cm_cache, reader_call[r].catalog_id)]]
    /\ reader_pc' = [reader_pc EXCEPT ![r] = "done"]
    /\ UNCHANGED <<reader_call, reader_rows, cm_at_start, cmVars,
                   parseVars, synthVars, jobberVars, syncVars, keyVars,
                   headerVars, cmCallVars, restVars>>

\* the cache was built at StartTime, or a write has reset the timestamp;
\* the sheet has been edited since the cache was built
InitReaders ==
    /\ worksheet = SheetNow
    /\ cm_cache = Refresh(SheetAtStart)
    /\ last_updated \in {StartTime, 0}
    /\ now \in {StartTime + MaxAgeSeconds, StartTime + MaxAgeSeconds + 1}
    /\ reader_pc = [r \in Readers |-> "check"]
    /\ reader_call \in [Readers -> ReaderCalls]
    /\ reader_rows = [r \in Readers |-> <<>>]
    /\ reader_answer = [r \in Readers |-> [brand |-> <<>>, markup |-> 0]]
    /\ cm_at_start = [cache |-> cm_cache, last_updated |-> last_updated]
    /\ CmCallIdle
    /\ ParseIdle
    /\ SynthIdle
    /\ SyncIdle
    /\ KeyIdle
    /\ HeaderIdle
    /\ RestIdle

NextReaders ==
    \E r \in Readers :
        \/ ReaderCheck(r)
        \/ ReaderFetch(r)
        \/ ReaderAssign(r)
        \/ ReaderStamp(r)
        \/ ReaderLookup(r)

SpecReaders == InitReaders /\ [][NextReaders]_vars

-----------------------------------------------------------------------------
(* The quote, the job and the master catalog the handler is run against *)

Node(id, name, quantity) == [id |-> id, name |-> name, quantity |-> quantity]

QuotesAtStart ==
    { <<>>, <<Node(1, sNameX, 3)>>, <<Node(1, sNameX, 5), Node(2, sNameX, 2)>> }

JobsAtStart == { <<>>, <<Node(3, sNameM, 3), Node(4, sNameXOld, 2)>> }

ProductsAtStart ==
    { <<>>, <<[id |-> 5, name |-> sNameXOld]>>, <<[id |-> 5, name |-> sNameM]>> }

\* two requests are handled, one after the other
InitSync ==
    /\ ParseIdle
    /\ CatalogManagerIdle
    /\ SynthIdle
    /\ \E quote \in QuotesAtStart, job \in JobsAtStart :
          remote_items = [Quote |-> quote, Job |-> job]
    /\ products \in ProductsAtStart
    /\ next_id = 6
    /\ sync_pc = "first"
    /\ request = NoRequest
    /\ products_before = <<>>
    /\ existing_nodes = <<>>
    /\ all_desired_line_items = <<>>
    /\ items_to_add = <<>>
    /\ items_to_update = <<>>
    /\ status = "none"
    /\ KeyIdle
    /\ OthersIdle

NextSync ==
    \/ RejectRequest
    \/ SendToQuote
    \/ SendToJob

SpecSync == InitSync /\ [][NextSync]_vars

-----------------------------------------------------------------------------
(* What the parsed document says, recomputed from the document alone *)

\* the record is a marker that sets a context key
SetsContext(r) == IsMarker(r) /\ ~DimensionPatternSearch(ItemDescription(r))
MarkerKey(r) == Strip(SplitFirst(ItemDescription(r), "=")[1])
MarkerValue(r) == Strip(SplitFirst(ItemDescription(r), "=")[2])

\* positions before p of the markers that set key
MarkersBefore(doc, p, key) ==
    {j \in 1..(p - 1) : SetsContext(doc[j]) /\ MarkerKey(doc[j]) = key}

Max(S) == CHOOSE x \in S : \A y \in S : y <= x

\* the value the most recent marker before p gave to key
ValueBefore(doc, p, key) == MarkerValue(doc[Max(MarkersBefore(doc, p, key))])

\* the keys set by some marker before p
KeysBefore(doc, p) == {MarkerKey(doc[j]) : j \in {q \in 1..(p - 1) : SetsContext(doc[q])}}

\* position of the n-th Product record of doc
ProductPositions(doc) == {p \in 1..Len(doc) : IsProduct(doc[p])}
NthProduct(doc, n) ==
    CHOOSE p \in ProductPositions(doc) :
        Cardinality({q \in ProductPositions(doc) : q <= p}) = n

\* the items of a dict, as a set
DictItems(d) == {d[i] : i \in 1..Len(d)}

\* the attributes dict of a line item
Attributes(item) == heap[item.attributes]

RECURSIVE SumCost(_, _)
SumCost(lines, c) ==
    IF lines = <<>> THEN 0
    ELSE (IF Head(lines).catalog = c THEN Head(lines).cost * Head(lines).quantity ELSE 0)
         + SumCost(Tail(lines), c)

-----------------------------------------------------------------------------
(* Claims about SaberisOrder.from_json *)

\* C1: every line item built so far carries the catalog given by the most
\* recent Catalog marker before its product record and the attributes given
\* by the most recent markers before it, whatever was parsed after it.
C1_SnapshotIsolation ==
    \A n \in 1..Len(processed_lines) :
        LET p == NthProduct(raw_lines_list, n)
            item == processed_lines[n]
        IN  /\ MarkersBefore(raw_lines_list, p, sCatalog) # {}
            /\ item.catalog = ValueBefore(raw_lines_list, p, sCatalog)
            /\ DictItems(Attributes(item)) =
                  {<<k, ValueBefore(raw_lines_list, p, k)>> :
                      k \in KeysBefore(raw_lines_list, p) \ {sCatalog, sBrand}}

\* C1 witness: [Catalog=A, P1, Catalog=B, P2] was parsed to the end
C1_Witness ==
    /\ pc = "done"
    /\ Len(processed_lines) = 2
    /\ processed_lines[1].catalog = sA
    /\ processed_lines[2].catalog = sB
    /\ Len(raw_lines_list) = 4

\* C2: from_json never raises and returns one line item per Product record.
C2_NeverRaises ==
    /\ pc # "raised"
    /\ pc = "done" => Len(processed_lines) = Cardinality(ProductPositions(raw_lines_list))

\* C3: in the returned Order the keys of catalog_to_total_cost are the
\* catalogs of the line items and each entry is the sum of cost * quantity
\* over the line items of that catalog.
C3_CostByOwnCatalog ==
    pc = "done" =>
        /\ DictKeys(catalog_to_total_cost) =
               {processed_lines[n].catalog : n \in 1..Len(processed_lines)}
        /\ \A c \in DictKeys(catalog_to_total_cost) :
               DictGet(catalog_to_total_cost, c, 0) = SumCost(processed_lines, c)

\* C3 witness: two catalogs with costs, the context having changed between
C3_Witness ==
    /\ pc = "done"
    /\ Len(catalog_to_total_cost) = 2
    /\ \E n \in 1..Len(processed_lines) :
           /\ processed_lines[n].brand # processed_lines[n].catalog
           /\ processed_lines[n].cost * processed_lines[n].quantity > 0

-----------------------------------------------------------------------------
(* Claims about the synthesizer *)

\* the text between "S2J(" and the closing ")" of a synthesized name
S2JStart(name) ==
    CHOOSE i \in 1..Len(name) :
        /\ i + 3 <= Len(name)
        /\ SubSeq(name, i, i + 3) = <<"S","2","J","(">>
        /\ \A j \in 1..(i - 1) : j + 3 > Len(name) \/ SubSeq(name, j, j + 3) # <<"S","2","J","(">>
S2JHash(name) == SubSeq(name, S2JStart(name) + 4, Len(name) - 1)

\* the key of the attribute whose value differs between the item and its variant
ChangedKey ==
    li_attributes[CHOOSE i \in 1..Len(li_attributes) : li_variant[i] # li_attributes[i]][1]

IsPriceLevelKey(key) == Lower(Strip(key)) = sPricelevelLower

C10_AnyAttributeChangesHash ==
    (synth_pc = "done" /\ li_variant # li_attributes) =>
        S2JHash(jobber_lines[1].name) # S2JHash(jobber_lines[3].name)

\* C10 as amended: changing the value of one attribute whose key is not the
\* price-level key changes the hash in the S2J suffix of the name.
C10_DescribedAttributeChangesHash ==
    (synth_pc = "done" /\ li_variant # li_attributes /\ ~IsPriceLevelKey(ChangedKey)) =>
        S2JHash(jobber_lines[1].name) # S2JHash(jobber_lines[3].name)

\* C10 witness: the value of a title attribute was changed from or to the
\* empty string beside a price-level attribute, and the hash changed
C10_Witness ==
    /\ synth_pc = "done"
    /\ li_variant # li_attributes
    /\ ChangedKey = sDoorSelection
    /\ DictHas(li_attributes, sPriceLevel)
    /\ S2JHash(jobber_lines[1].name) # S2JHash(jobber_lines[3].name)

-----------------------------------------------------------------------------
(* What a request and the fetched items say, recomputed from them alone *)

\* the handler got as far as the diff
DiffDone == status \in {"200", "500 api"}

Names(items) == {items[i].name : i \in 1..Len(items)}

\* the sum of the quantities the request gives for a name
RECURSIVE SumQuantity(_, _)
SumQuantity(items, name) ==
    IF items = <<>> THEN 0
    ELSE (IF Head(items).name = name THEN Head(items).quantity ELSE 0)
         + SumQuantity(Tail(items), name)

\* the fetched item a name stands for: the last one of that name
HasRemote(name) == \E i \in 1..Len(existing_nodes) : existing_nodes[i].name = name
Remote(name) ==
    existing_nodes[Max({i \in 1..Len(existing_nodes) : existing_nodes[i].name = name})]

Added(name) == \E i \in 1..Len(items_to_add) : items_to_add[i].name = name
Updated(name) ==
    \E i \in 1..Len(items_to_update), j \in 1..Len(existing_nodes) :
        /\ existing_nodes[j].name = name
        /\ items_to_update[i].lineItemId = existing_nodes[j].id
Unchanged(name) ==
    HasRemote(name) /\ Remote(name).quantity = SumQuantity(request.lineItems, name)

Truth(b) == IF b THEN 1 ELSE 0

-----------------------------------------------------------------------------
(* Claims about the reconciliation *)

\* C4: the names in the add list and the names whose fetched item an update
\* targets are disjoint, and every name of the request is in exactly one of
\* the classes added, updated, unchanged.
C4_DiffPartition ==
    DiffDone =>
        /\ \A name \in Names(request.lineItems) \cup Names(existing_nodes) :
              ~(Added(name) /\ Updated(name))
        /\ \A name \in Names(request.lineItems) :
              Truth(Added(name)) + Truth(Updated(name)) + Truth(Unchanged(name)) = 1

\* a request with an added and an updated name has been handled
C4_Witness ==
    /\ DiffDone
    /\ \E a, u \in Names(request.lineItems) : Added(a) /\ Updated(u)

\* C5: the items of a request that share a name are merged into one item
\* whose quantity is the sum of theirs before the diff, so that each name is
\* compared, added or updated at most once.
C5_AggregatedByName ==
    status \notin {"none", "401", "400 missing"} =>
        /\ Names(all_desired_line_items) = Names(request.lineItems)
        /\ \A i, j \in 1..Len(all_desired_line_items) :
              all_desired_line_items[i].name = all_desired_line_items[j].name => i = j
        /\ \A i \in 1..Len(all_desired_line_items) :
              all_desired_line_items[i].quantity =
                  SumQuantity(request.lineItems, all_desired_line_items[i].name)
        /\ \A i, j \in 1..Len(items_to_add) :
              items_to_add[i].name = items_to_add[j].name => i = j
        /\ \A i \in 1..Len(items_to_add) :
              items_to_add[i].quantity =
                  SumQuantity(request.lineItems, items_to_add[i].name)
        /\ \A i, j \in 1..Len(items_to_update) :
              items_to_update[i].lineItemId = items_to_update[j].lineItemId => i = j
        /\ \A i \in 1..Len(items_to_update), n \in 1..Len(existing_nodes) :
              items_to_update[i].lineItemId = existing_nodes[n].id =>
                  items_to_update[i].quantity =
                      SumQuantity(request.lineItems, existing_nodes[n].name)

\* two items of one name were sent with different quantities, and the name
\* was added or updated
C5_Witness ==
    /\ DiffDone
    /\ \E i, j \in 1..Len(request.lineItems) :
          /\ i < j
          /\ request.lineItems[i].name = request.lineItems[j].name
          /\ request.lineItems[i].quantity # request.lineItems[j].quantity
          /\ Added(request.lineItems[i].name) \/ Updated(request.lineItems[i].name)

\* C6: for a name of the request, an update {id of the fetched item of that
\* name, desired quantity} is emitted iff a fetched item has that name and
\* its quantity differs from the desired one; the item is added iff no
\* fetched item has that name.  Names are compared as whole strings.
C6_UpdateIffAddIff ==
    DiffDone =>
        /\ \A name \in Names(request.lineItems) :
              LET quantity == SumQuantity(request.lineItems, name)
              IN  /\ (\E i \in 1..Len(items_to_update) :
                         /\ HasRemote(name)
                         /\ items_to_update[i] = [lineItemId |-> Remote(name).id,
                                                  quantity |-> quantity])
                     <=> (HasRemote(name) /\ Remote(name).quantity # quantity)
                  /\ Added(name) <=> ~HasRemote(name)
        /\ \A i \in 1..Len(items_to_update) :
              \E name \in Names(request.lineItems) :
                  /\ HasRemote(name)
                  /\ items_to_update[i].lineItemId = Remote(name).id
        /\ Names(items_to_add) \subseteq Names(request.lineItems)

\* a smaller quantity than the fetched one was sent and went out as an
\* update, while a name that differs from a fetched one by letter case only
\* was added
C6_Witness ==
    /\ DiffDone
    /\ \E name \in Names(request.lineItems) :
          /\ HasRemote(name)
          /\ SumQuantity(request.lineItems, name) < Remote(name).quantity
          /\ Updated(name)
    /\ \E name \in Names(request.lineItems), n \in 1..Len(existing_nodes) :
          /\ name # existing_nodes[n].name
          /\ Lower(name) = Lower(existing_nodes[n].name)
          /\ Added(name)

HexDigits == {"0","1","2","3","4","5","6","7","8","9","a","b","c","d","e","f"}

\* the positions of name where S2J( , six hex digits and ) stand
S2JSuffixes(name) ==
    {i \in 1..Len(name) :
        /\ i + 10 <= Len(name)
        /\ SubSeq(name, i, i + 3) = <<"S","2","J","(">>
        /\ \A k \in 4..9 : name[i + k] \in HexDigits
        /\ name[i + 10] = ")"}

\* the six hex digits of the S2J suffix of name, <<>> when it has none
SuffixHash(name) ==
    IF S2JSuffixes(name) = {} THEN <<>>
    ELSE SubSeq(name, Max(S2JSuffixes(name)) + 4, Max(S2JSuffixes(name)) + 9)

\* the entries of the master catalog that carry the hash of name
EntriesWithHashOf(catalog, name) ==
    {i \in 1..Len(catalog) :
        SuffixHash(name) # <<>> /\ SuffixHash(catalog[i].name) = SuffixHash(name)}

\* C7: an added item whose name carries an S2J hash that an entry of the
\* master catalog carries too is linked to that entry's id and is not saved
\* as a new reusable entry, whatever the rest of the two names; an item
\* without the suffix, or whose hash no entry carries, is saved as new.
C7_LinkedByHash ==
    DiffDone =>
        \A i \in 1..Len(items_to_add) :
            LET item == items_to_add[i]
                entries == EntriesWithHashOf(products_before, item.name)
            IN  IF entries # {}
                THEN /\ ~item.saveToProductsAndServices
                     /\ \E e \in entries :
                           item.productOrServiceId = Str(products_before[e].id)
                ELSE item.saveToProductsAndServices

\* the entries of the master catalog that a run saved
SavedByRun(catalog) ==
    {i \in 1..Len(catalog) :
        \A start \in ProductsAtStart : \A j \in 1..Len(start) : catalog[i] # start[j]}

\* C8: once a first run has saved a master entry for a synthesized name, a
\* re-run that adds the item of that hash does not mark it to be saved as a
\* new reusable entry again, and the runs have saved one entry of that hash.
C8_RerunNotSavedAgain ==
    (sync_pc = "done" /\ DiffDone) =>
        \A i \in 1..Len(items_to_add) :
            (EntriesWithHashOf(products_before, items_to_add[i].name)
                 \cap SavedByRun(products_before) # {})
            => /\ ~items_to_add[i].saveToProductsAndServices
               /\ Cardinality(EntriesWithHashOf(products, items_to_add[i].name)
                                  \cap SavedByRun(products)) = 1

-----------------------------------------------------------------------------
(* Claims about the name and the description of a synthesized line *)

RECURSIVE Flatten(_)
Flatten(seqs) == IF seqs = <<>> THEN <<>> ELSE Head(seqs) \o Flatten(Tail(seqs))

\* the attributes but the price-level one
Described(d) == SelectSeq(d, LAMBDA p : ~IsPriceLevelKey(p[1]))

\* the values of the title-worthy attributes
TitleValues(d) ==
    LET titled == SelectSeq(d, LAMBDA p : p[1] \in FIELDs_TO_PUT_IN_TITLE)
    IN  [i \in 1..Len(titled) |-> titled[i][2]]

KeyValueLine(p) == p[1] \o <<":", " ">> \o p[2]

\* C11 as claimed: the name is the catalog of the line item, its description
\* without the {...} substrings and the values of the title-worthy
\* attributes in attribute order, joined by " | ", followed by " | S2J(<hash>)".
C11_NameFromCatalog ==
    Len(jobber_lines) >= 1 =>
        jobber_lines[1].name =
            Join(<<li.catalog, remove_curly_braces_and_content(li.description)>>
                     \o TitleValues(li_attributes),
                 <<" ", "|", " ">>)
            \o <<" ", "|", " ", "S", "2", "J", "(">>
            \o S2JHash(jobber_lines[1].name) \o <<")">>

\* C11 as amended: the name is the brand of the line item, its description
\* without the {...} substrings and the values of the title-worthy attributes
\* in attribute order, the empty ones of these parts left out, joined by
\* " | ", followed by " | S2J(<hash>)".
C11_NameFromBrand ==
    Len(jobber_lines) >= 1 =>
        jobber_lines[1].name =
            Join(SelectSeq(<<li.brand, remove_curly_braces_and_content(li.description)>>
                               \o TitleValues(li_attributes),
                           LAMBDA part : Len(part) > 0),
                 <<" ", "|", " ">>)
            \o <<" ", "|", " ", "S", "2", "J", "(">>
            \o S2JHash(jobber_lines[1].name) \o <<")">>

\* the line item of brand Acme (catalog A), description TP{10c}18 and
\* attribute Door Selection=Shaker was synthesized
C11_Witness ==
    /\ Len(jobber_lines) >= 1
    /\ li.catalog = sA /\ li.brand = sAcme
    /\ li.description = <<"T","P","{","1","0","c","}","1","8">>
    /\ li_attributes = <<<<sDoorSelection, sShaker>>>>
    /\ SubSeq(jobber_lines[1].name, 1, 27) =
           <<"A","c","m","e"," ","|"," ","T","P","1","8"," ","|"," ",
             "S","h","a","k","e","r"," ","|"," ","S","2","J","(">>

\* C12 as claimed: the description is one line "key: value" for every
\* attribute but the price-level one, in attribute order, and nothing else.
C12_OneLinePerAttribute ==
    Len(jobber_lines) >= 1 =>
        jobber_lines[1].description =
            Join([i \in 1..Len(Described(li_attributes)) |->
                     KeyValueLine(Described(li_attributes)[i])],
                 <<"\n">>)

\* C12 as amended: the description is one line "key: value" for every
\* attribute but the price-level one, in attribute order, with one more line
\* "Finish / Species: value" right before the line of the attribute whose key
\* is "Species / Finish", and nothing else.
C12_LinesWithFinishSpecies ==
    Len(jobber_lines) >= 1 =>
        jobber_lines[1].description =
            Join(Flatten([i \in 1..Len(Described(li_attributes)) |->
                     LET p == Described(li_attributes)[i]
                     IN  IF p[1] = <<"S","p","e","c","i","e","s"," ","/"," ",
                                     "F","i","n","i","s","h">>
                         THEN <<<<"F","i","n","i","s","h"," ","/"," ",
                                  "S","p","e","c","i","e","s",":"," ">> \o p[2],
                                KeyValueLine(p)>>
                         ELSE <<KeyValueLine(p)>>]),
                 <<"\n">>)

\* a line item with a Species / Finish and a price-level attribute was
\* synthesized
C12_Witness ==
    /\ Len(jobber_lines) >= 1
    /\ \E i, j \in 1..Len(li_attributes) :
          /\ li_attributes[i][1] = sSpeciesFinish
          /\ IsPriceLevelKey(li_attributes[j][1])

-----------------------------------------------------------------------------
(* Claims about the fields of a parsed line item *)

\* the number a field of a raw record holds, if it holds one
IsNumber(field) ==
    \/ field.t = "num"
    \/ field.t = "str" /\ ParseFloat(field.s).ok
NumberOf(field) == IF field.t = "num" THEN field.n ELSE ParseFloat(field.s).val

\* C13: a product record is parsed without raising; its quantity is the
\* number the record gives and 1.0 when that is missing, empty or not a
\* number; its cost and its list price are the numbers the record gives and
\* 0.0 when they are missing, empty or not a number.
C13_NumericDefaults ==
    /\ pc # "raised"
    /\ pc = "done" =>
          \A n \in 1..Len(processed_lines) :
              LET r == raw_lines_list[NthProduct(raw_lines_list, n)]
                  item == processed_lines[n]
              IN  /\ item.quantity = IF IsNumber(r.Quantity) THEN NumberOf(r.Quantity) ELSE 1
                  /\ item.cost = IF IsNumber(r.Cost) THEN NumberOf(r.Cost) ELSE 0
                  /\ item.list_price = IF IsNumber(r.List) THEN NumberOf(r.List) ELSE 0

-----------------------------------------------------------------------------
(* Claims about the markers and the context *)

\* a label cut at its first "=", by position
EqualsAt(label) == {i \in 1..Len(label) : label[i] = "="}
Min(S) == CHOOSE x \in S : \A y \in S : x <= y
LabelKey(label) == Strip(SubSeq(label, 1, Min(EqualsAt(label)) - 1))
LabelValue(label) == Strip(SubSeq(label, Min(EqualsAt(label)) + 1, Len(label)))

\* the record at idx, read off the raw record
IsTextKind(r) == r.Type.t = "str" /\ Lower(r.Type.s) = <<"t","e","x","t">>
IsProductKind(r) == r.Type.t = "str" /\ Lower(r.Type.s) = <<"p","r","o","d","u","c","t">>
Label(r) == IF r.Description.t = "str" THEN r.Description.s ELSE <<>>
\* the dimensional shape: W= ... H= ... D= in this order on one line
Dimensional(label) ==
    \E i, j, k \in 1..(Len(label) - 1) :
        /\ i + 2 <= j /\ j + 2 <= k
        /\ label[i] = "W" /\ label[i + 1] = "="
        /\ label[j] = "H" /\ label[j + 1] = "="
        /\ label[k] = "D" /\ label[k + 1] = "="
        /\ \A m \in i..k : label[m] # "\n"
IsKeyValue(r) ==
    /\ IsTextKind(r)
    /\ EqualsAt(Label(r)) # {}
    /\ ~Dimensional(Label(r))

AtRecord == pc = "loop" /\ idx <= Len(raw_lines_list)

\* C14: a marker is cut at its first "=" only and both sides are trimmed;
\* for a key other than Catalog the value is stored under the key, replaces
\* an earlier value of the key, and every other key keeps its value.
C14_MarkerStoresValue ==
    [][ (AtRecord /\ IsKeyValue(CurrentRecord)
           /\ LabelKey(Label(CurrentRecord)) # sCatalog)
        => LET key == LabelKey(Label(CurrentRecord))
               value == LabelValue(Label(CurrentRecord))
           IN  /\ DictHas(heap'[context], key)
               /\ DictGet(heap'[context], key, <<>>) = value
               /\ DictKeys(heap'[context]) = DictKeys(heap[context]) \cup {key}
               /\ \A k \in DictKeys(heap[context]) \ {key} :
                     DictGet(heap'[context], k, <<>>) = DictGet(heap[context], k, <<>>)
               /\ cumulative_catalogs' = cumulative_catalogs
               /\ context' = context
      ]_vars

\* Door Selection=Shaker, Door Selection = Oak and PriceLevel = 1=2 were
\* read: the later door is kept, and the value 1=2 is whole
C14_Witness ==
    /\ pc = "done"
    /\ Len(raw_lines_list) = 3
    /\ Label(raw_lines_list[1]) = sDoorSelection \o <<"=">> \o sShaker
    /\ heap[context] = << <<sDoorSelection, sOak>>, <<sPriceLevel, <<"1","=","2">>>> >>

\* the record at idx is a marker of the catalog key
AtCatalogMarker ==
    /\ AtRecord /\ IsKeyValue(CurrentRecord)
    /\ LabelKey(Label(CurrentRecord)) = sCatalog

\* positions before p of the catalog markers of doc
CatalogMarkersBefore(doc, p) ==
    {j \in 1..(p - 1) : IsKeyValue(doc[j]) /\ LabelKey(Label(doc[j])) = sCatalog}

\* the raw value of the catalog marker in force at position p
CatalogInForce(doc, p) == LabelValue(Label(doc[Max(CatalogMarkersBefore(doc, p))]))

\* C15 (as stated): a catalog marker stores the brand looked up for its
\* value under the catalog slot, so the catalog field of the following line
\* items is that brand, and adds the raw value to the catalogs seen.
C15_CatalogSlotHoldsBrand ==
    [][ AtCatalogMarker
        => LET value == LabelValue(Label(CurrentRecord))
           IN  /\ DictGet(heap'[context], sCatalog, <<>>) = GetBrand(cm_cache', value)
               /\ cumulative_catalogs' = cumulative_catalogs \cup {value}
      ]_vars

\* C15 (amended): a catalog marker stores its raw value under the catalog
\* slot and the brand looked up for the value under a brand slot of its own;
\* the catalog field of every following line item until the next catalog
\* marker is the raw value; the raw value is added to the catalogs seen.
C15_CatalogSlotHoldsValue ==
    /\ [][ AtCatalogMarker
           => LET value == LabelValue(Label(CurrentRecord))
              IN  /\ DictGet(heap'[context], sCatalog, <<>>) = value
                  /\ DictGet(heap'[context], sBrand, <<>>) = GetBrand(cm_cache', value)
                  /\ cumulative_catalogs' = cumulative_catalogs \cup {value}
         ]_vars
    /\ [](\A n \in 1..Len(processed_lines) :
             LET p == NthProduct(raw_lines_list, n)
             IN  /\ CatalogMarkersBefore(raw_lines_list, p) # {}
                 /\ processed_lines[n].catalog = CatalogInForce(raw_lines_list, p))

\* Catalog=A was read with the brand Acme on the sheet, then a product
C15_Witness ==
    /\ pc = "done"
    /\ Len(processed_lines) = 1
    /\ processed_lines[1].catalog = sA
    /\ processed_lines[1].brand = sAcme
    /\ DictGet(heap[context], sBrand, <<>>) = sAcme
    /\ cumulative_catalogs = {sA}

\* the three records that set nothing
IsTextWithoutEquals(r) == IsTextKind(r) /\ EqualsAt(Label(r)) = {}
IsDimensionalText(r) == IsTextKind(r) /\ Dimensional(Label(r))
IsOtherKind(r) == ~IsTextKind(r) /\ ~IsProductKind(r)

C16_WitnessOtherKind ==
    /\ pc = "done"
    /\ Len(raw_lines_list) = 2
    /\ IsTextWithoutEquals(raw_lines_list[1])
    /\ IsOtherKind(raw_lines_list[2]) /\ EqualsAt(Label(raw_lines_list[2])) # {}
    /\ heap[context] = <<>>

\* C17: no line item's attributes hold the catalog key, whatever markers
\* came before the product.
C17_NoCatalogInAttributes ==
    \A n \in 1..Len(processed_lines) :
        sCatalog \notin DictKeys(heap[processed_lines[n].attributes])

\* Catalog=A, Door Selection=Shaker and a product were read: the context
\* holds the catalog, the item's attributes hold the door alone
C17_Witness ==
    /\ pc = "done"
    /\ Len(processed_lines) = 1
    /\ DictHas(heap[context], sCatalog)
    /\ heap[processed_lines[1].attributes] = << <<sDoorSelection, sShaker>> >>

\* C18: in the returned Order the catalogs set is the set of the catalogs
\* of the line items; a catalog marker followed by no product adds nothing.
C18_CatalogsOfLines ==
    pc = "done" =>
        cumulative_catalogs = {processed_lines[n].catalog : n \in 1..Len(processed_lines)}

-----------------------------------------------------------------------------
(* Claims about the key of an Order *)

\* both parses are over and both keys are computed
TwoKeys == first_order # NoOrder /\ unique_key # NoKey

\* two line items agree in every field, their attributes as mappings
SameLineItem(a, b) ==
    /\ a.type = b.type
    /\ a.description = b.description
    /\ a.quantity = b.quantity
    /\ a.list_price = b.list_price
    /\ a.cost = b.cost
    /\ a.catalog = b.catalog
    /\ a.brand = b.brand
    /\ DictKeys(a.attributes) = DictKeys(b.attributes)
    /\ \A k \in DictKeys(a.attributes) :
          DictGet(a.attributes, k, <<>>) = DictGet(b.attributes, k, <<>>)

SameLines(a, b) ==
    /\ Len(a) = Len(b)
    /\ \A n \in 1..Len(a) : SameLineItem(a[n], b[n])

C19_WitnessChanged ==
    /\ TwoKeys
    /\ Len(processed_lines) = 1 /\ Len(first_order.lines) = 1
    /\ first_order.lines[1].quantity # processed_lines[1].quantity
    /\ unique_key # first_order.key

\* positions of the catalog markers of doc
CatalogMarkers(doc) ==
    {j \in 1..Len(doc) : IsKeyValue(doc[j]) /\ LabelKey(Label(doc[j])) = sCatalog}

\* C20: the catalog component of the key is the value of the first Catalog
\* marker of the parsed document.
C20_FirstCatalogInKey ==
    (unique_key # NoKey /\ CatalogMarkers(raw_lines_list) # {})
        => unique_key.catalog_code =
               LabelValue(Label(raw_lines_list[Min(CatalogMarkers(raw_lines_list))]))

-----------------------------------------------------------------------------
(* Claims about the header of an Order *)

\* C21: a document that lacks the order node, the Customer, the Shipping or
\* the Group is assembled without an error; the missing part counts as
\* empty: the header fields take their defaults and the missing Group or
\* item list gives no line items.
C21_MissingPartsTolerated ==
    /\ header_pc # "raised"
    /\ pc # "raised"
    /\ header_pc = "assembled" =>
          LET has_order == document.has_document /\ document.has_order
          IN  /\ ~has_order =>
                    /\ order_header.username = sUnknown
                    /\ order_header.created_at = <<"1","9","7","0","0","1","0","1">>
              /\ ~(has_order /\ document.Customer.present) =>
                    order_header.customer_name = sUnnamedClient
              /\ ~(has_order /\ document.Shipping.present) =>
                    order_header.province = <<>>
              /\ ~(has_order /\ document.Group.present /\ document.Group.has_item) =>
                    /\ raw_lines_list = <<>>
                    /\ processed_lines = <<>>

\* C26: the country of the shipping address follows the province code: one
\* country for the codes of the Canadian provinces and territories, the
\* other country for every other code.
C26_CountryFromProvince ==
    header_pc = "assembled" =>
        (order_header.province \in CANADIAN_PROVINCE_TERRITORY_CODES
            <=> order_header.country # sUS)

-----------------------------------------------------------------------------
(* What the backing sheet says, read off its rows *)

\* the data rows of the sheet that name catalog_id
StoreRows(sheet, catalog_id) ==
    {r \in 2..Len(sheet) : sheet[r] # <<>> /\ sheet[r][1] = catalog_id}

\* the catalogs the sheet names
StoreCatalogs(sheet) ==
    {sheet[r][1] : r \in {q \in 2..Len(sheet) : sheet[q] # <<>> /\ sheet[q][1] # <<>>}}

\* the row that counts for catalog_id: the last one
StoreRow(sheet, catalog_id) == sheet[Max(StoreRows(sheet, catalog_id))]

StoreBrand(sheet, catalog_id) ==
    IF StoreRows(sheet, catalog_id) = {} THEN catalog_id
    ELSE LET row == StoreRow(sheet, catalog_id)
         IN  IF Len(row) >= 2 /\ row[2] # <<>> THEN row[2] ELSE catalog_id

StoreMarkup(sheet, catalog_id) ==
    IF StoreRows(sheet, catalog_id) = {} THEN DEFAULT_MARKUP
    ELSE LET row == StoreRow(sheet, catalog_id)
         IN  IF Len(row) >= 3 /\ ParseFloat(row[3]).ok /\ ParseFloat(row[3]).val > 0
             THEN ParseFloat(row[3]).val ELSE DEFAULT_MARKUP

\* the cache holds what the sheet says, for every catalog of the sheet and
\* for no other
CacheIsStore(cache, sheet) ==
    /\ DictKeys(cache) = StoreCatalogs(sheet)
    /\ \A c \in StoreCatalogs(sheet) :
          DictGet(cache, c, <<>>) = <<StoreBrand(sheet, c), StoreMarkup(sheet, c)>>

\* what a cache answers
CacheBrand(cache, catalog_id) ==
    IF catalog_id \in DictKeys(cache) THEN DictGet(cache, catalog_id, <<>>)[1]
    ELSE catalog_id
CacheMarkup(cache, catalog_id) ==
    IF catalog_id \in DictKeys(cache) THEN DictGet(cache, catalog_id, <<>>)[2]
    ELSE DEFAULT_MARKUP

-----------------------------------------------------------------------------
(* Claims about the CatalogManager *)

\* C22: a read (get_brand, get_markup) made when the age of the cache
\* exceeds max_age_seconds reloads the whole cache from the sheet and answers
\* what the sheet says at that time; a read made when the age does not
\* exceed it answers from the cache and does not read the sheet.
C22_ReadRefreshesWhenStale ==
    [][ (cm_calls' = cm_calls + 1 /\ cm_answer'.op \in {"get_brand", "get_markup"})
        => LET id == cm_answer'.catalog_id
           IN  IF now - last_updated > MaxAgeSeconds
               THEN /\ store_reads' = store_reads + 1
                    /\ CacheIsStore(cm_cache', worksheet)
                    /\ cm_answer'.op = "get_brand"
                          => cm_answer'.brand = StoreBrand(worksheet, id)
                    /\ cm_answer'.op = "get_markup"
                          => cm_answer'.markup = StoreMarkup(worksheet, id)
               ELSE /\ store_reads' = store_reads
                    /\ cm_cache' = cm_cache
                    /\ cm_answer'.op = "get_brand"
                          => cm_answer'.brand = CacheBrand(cm_cache, id)
                    /\ cm_answer'.op = "get_markup"
                          => cm_answer'.markup = CacheMarkup(cm_cache, id)
      ]_vars

\* the first call, a get_brand of A made one second past the maximum age,
\* read the sheet and answered the brand Acme the sheet holds since
C22_Witness ==
    /\ cm_calls = 1
    /\ cm_answer.op = "get_brand" /\ cm_answer.catalog_id = sA
    /\ cm_answer.brand = sAcme
    /\ store_reads = 1
    /\ last_updated = now

\* a get_brand of A made at the maximum age answered A from the cache while
\* the sheet says Acme
C22_WitnessFromCache ==
    /\ cm_calls = 1
    /\ cm_answer.op = "get_brand" /\ cm_answer.catalog_id = sA
    /\ cm_answer.brand = sA
    /\ StoreBrand(worksheet, sA) = sAcme
    /\ store_reads = 0

\* C23: every call of set_markup, whether the write succeeds or fails,
\* resets the timestamp of the cache, so the next read reloads the cache.
C23_WriteResetsTimestamp ==
    [][ (cm_calls' = cm_calls + 1 /\ cm_answer'.op = "set_markup")
        => last_updated' = 0
      ]_vars

\* the text of the cell a markup is written as
CellOf(n) == (CHOOSE m \in Markups : m.n = n).cell

\* C24: set_markup never raises: it returns false when the store fails with
\* any error and true only when the write was made.
C24_WriteNeverRaises ==
    cm_answer.op = "set_markup" =>
        /\ cm_answer.returned # "raised"
        /\ cm_answer.store_error # "none" => cm_answer.returned = "false"
        /\ cm_answer.returned = "true" =>
              /\ cm_answer.store_error = "none"
              /\ StoreRows(worksheet, cm_answer.catalog_id) # {}
              /\ \E r \in StoreRows(worksheet, cm_answer.catalog_id) :
                    worksheet[r][3] = CellOf(cm_answer.markup)

\* what one reader alone, started with the readers, returns
AloneAnswer(call) ==
    LET stale == now - cm_at_start.last_updated > MaxAgeSeconds
    IN  IF call.op = "get_brand"
        THEN [brand |-> IF stale THEN StoreBrand(worksheet, call.catalog_id)
                        ELSE CacheBrand(cm_at_start.cache, call.catalog_id),
              markup |-> 0]
        ELSE [brand |-> <<>>,
              markup |-> IF stale THEN StoreMarkup(worksheet, call.catalog_id)
                         ELSE CacheMarkup(cm_at_start.cache, call.catalog_id)]

\* C25: two readers that share the manager and interleave on the stale
\* check and the refresh, the sheet unchanged: each returns what a reader
\* alone returns, and when both are done the cache is what one full reload
\* of the sheet gives (the cache as it was when no reload was due).
C25_ReadersAgreeWithOne ==
    /\ \A r \in Readers :
          reader_pc[r] = "done" => reader_answer[r] = AloneAnswer(reader_call[r])
    /\ (\A r \in Readers : reader_pc[r] = "done") =>
          IF now - cm_at_start.last_updated > MaxAgeSeconds
          THEN CacheIsStore(cm_cache, worksheet) /\ last_updated = now
          ELSE cm_cache = cm_at_start.cache /\ last_updated = cm_at_start.last_updated

\* both readers found the cache stale and both reloaded it: the second
\* reload was redundant; both asked for the brand of A and got Acme
C25_Witness ==
    /\ \A r \in Readers :
          /\ reader_pc[r] = "done"
          /\ reader_rows[r] = worksheet
          /\ reader_call[r] = [op |-> "get_brand", catalog_id |-> sA]
          /\ reader_answer[r].brand = sAcme
    /\ CacheBrand(cm_at_start.cache, sA) = sA

-----------------------------------------------------------------------------
(* Claims about a second run of the reconciliation *)

\* the step is a second run for the list and the item of a first run that
\* returned 200, so that the quote or job holds what the first run added
\* and updated
RerunAfterSuccess ==
    /\ sync_pc = "second" /\ sync_pc' = "done"
    /\ status = "200"
    /\ request'.itemType = request.itemType
    /\ request'.lineItems = request.lineItems

\* C27: a second run with the same desired list, after a run whose adds and
\* updates the quote or job now holds, emits no adds and no updates.
C27_RerunEmitsNothing ==
    [][ RerunAfterSuccess => (items_to_add' = <<>> /\ items_to_update' = <<>>) ]_vars

\* the same, for second runs whose fetch of the line items succeeded
C27_RerunEmitsNothingWhenFetched ==
    [][ (RerunAfterSuccess /\ existing_nodes' = remote_items[request.itemType])
        => (items_to_add' = <<>> /\ items_to_update' = <<>>) ]_vars

-----------------------------------------------------------------------------
(***************************************************************************)
(* The exports sheet: saberis_ingestion.py.  A data row of the sheet is a  *)
(* record of its columns: original_filename is the guid of the Saberis     *)
(* document, ingested_at the instant of its ingestion (an ISO timestamp;   *)
(* the strings order as the instants do, so the instant stands for it),    *)
(* data_ok says whether the data cell still parses and inflates.  Row 1 of *)
(* the sheet is the header, so data row k is sheet row k + 1.              *)
(***************************************************************************)
MaxExportRows == 5
MaxIngestions == 6
MaxKeep == 3

OthersAtRest ==
    /\ ParseIdle
    /\ CatalogManagerIdle
    /\ SynthIdle
    /\ SyncIdle
    /\ KeyIdle
    /\ HeaderIdle
    /\ CmCallIdle
    /\ ReadersIdle

ExportRow(guid, at, ok) ==
    [original_filename |-> guid, ingested_at |-> at, data_ok |-> ok]

\* worksheet.append_rows(new_rows): below the last row
AppendRows(sheet, rows) == sheet \o rows

\* worksheet.delete_rows(row_idx): the rows below move up
DeleteRows(sheet, row_idx) ==
    IF row_idx < 2 \/ row_idx > Len(sheet) + 1 THEN sheet
    ELSE [k \in 1..(Len(sheet) - 1) |->
             IF k < row_idx - 1 THEN sheet[k] ELSE sheet[k + 1]]

\* list.sort(key=ingested_at, reverse=True): stable, newest first
RECURSIVE InsertNewestFirst(_, _)
InsertNewestFirst(sorted, r) ==
    IF sorted = <<>> THEN <<r>>
    ELSE IF Head(sorted).ingested_at >= r.ingested_at
         THEN <<Head(sorted)>> \o InsertNewestFirst(Tail(sorted), r)
         ELSE <<r>> \o sorted

RECURSIVE SortNewestFirst(_)
SortNewestFirst(records) ==
    IF records = <<>> THEN <<>>
    ELSE InsertNewestFirst(SortNewestFirst(SubSeq(records, 1, Len(records) - 1)),
                           records[Len(records)])

\* range(a, b) as a sequence
Range(a, b) == [k \in 1..(IF b > a THEN b - a ELSE 0) |-> a + k - 1]

\* for row_idx in reversed(rows_to_delete): delete_rows(row_idx)
RECURSIVE DeleteReversed(_, _)
DeleteReversed(sheet, rows_to_delete) ==
    IF rows_to_delete = <<>> THEN sheet
    ELSE DeleteReversed(DeleteRows(sheet, rows_to_delete[Len(rows_to_delete)]),
                        SubSeq(rows_to_delete, 1, Len(rows_to_delete) - 1))

\* prune_saberis_exports(keep_count): the sheet afterwards and the value
\* returned.  The sort orders the local list of records; the rows deleted
\* are named by their position in the sheet.
PruneSaberisExports(sheet, keep) ==
    LET records == sheet
    IN  IF Len(records) <= keep THEN [sheet |-> sheet, deleted |-> 0]
        ELSE LET sorted == SortNewestFirst(records)
                 rows_to_delete == Range(keep + 2, Len(sorted) + 2)
             IN  [sheet |-> DeleteReversed(sheet, rows_to_delete),
                  deleted |-> Len(rows_to_delete)]

\* an ingestion that found one new document: its row goes below the others
IngestedOne ==
    /\ Len(exports_sheet) < MaxExportRows
    /\ export_clock <= MaxIngestions
    /\ exports_sheet' = AppendRows(exports_sheet,
                                   <<ExportRow(export_clock, export_clock, TRUE)>>)
    /\ export_clock' = export_clock + 1
    /\ sheet_at_call' = exports_sheet
    /\ deleted' = NotPruned
    /\ UNCHANGED <<keep_count, parseVars, cmVars, synthVars, jobberVars, syncVars,
                   keyVars, headerVars, cmCallVars, readerVars, ingestVars, authVars>>

Prune ==
    \E keep \in 0..MaxKeep :
        LET result == PruneSaberisExports(exports_sheet, keep)
        IN  /\ exports_sheet' = result.sheet
            /\ deleted' = result.deleted
            /\ keep_count' = keep
            /\ sheet_at_call' = exports_sheet
            /\ UNCHANGED <<export_clock, parseVars, cmVars, synthVars, jobberVars,
                           syncVars, keyVars, headerVars, cmCallVars, readerVars,
                           ingestVars, authVars>>

InitPrune ==
    /\ exports_sheet = <<>>
    /\ export_clock = 1
    /\ sheet_at_call = <<>>
    /\ keep_count = 0
    /\ deleted = NotPruned
    /\ IngestIdle
    /\ AuthIdle
    /\ OthersAtRest

NextPrune == IngestedOne \/ Prune

SpecPrune == InitPrune /\ [][NextPrune]_vars

-----------------------------------------------------------------------------
(***************************************************************************)
(* Claims about the exports sheet                                          *)
(***************************************************************************)
RowsOf(sheet) == {sheet[k] : k \in 1..Len(sheet)}

\* the rows of a sheet that fewer than n rows are more recent than
MostRecent(sheet, n) ==
    {r \in RowsOf(sheet) :
        Cardinality({q \in RowsOf(sheet) : q.ingested_at > r.ingested_at}) < n}

\* C28: after prune_saberis_exports(keep_count) on a sheet of more than
\* keep_count rows exactly keep_count rows remain, they are the keep_count
\* most recently ingested ones and the number returned is the number of
\* rows deleted; on a sheet of keep_count rows or fewer nothing is deleted
\* and 0 is returned.
C28_PruneKeepsMostRecent ==
    deleted # NotPruned =>
        IF Len(sheet_at_call) > keep_count
        THEN /\ Len(exports_sheet) = keep_count
             /\ RowsOf(exports_sheet) = MostRecent(sheet_at_call, keep_count)
             /\ deleted = Len(sheet_at_call) - Len(exports_sheet)
        ELSE /\ exports_sheet = sheet_at_call
             /\ deleted = 0

\* the same without the choice of the rows: the counts are as the claim says
C28_PruneCounts ==
    deleted # NotPruned =>
        IF Len(sheet_at_call) > keep_count
        THEN /\ Len(exports_sheet) = keep_count
             /\ deleted = Len(sheet_at_call) - Len(exports_sheet)
        ELSE /\ exports_sheet = sheet_at_call
             /\ deleted = 0

\* what is kept is the top of the sheet, the rows ingested first
C28_PruneKeepsTop ==
    (deleted # NotPruned /\ Len(sheet_at_call) > keep_count)
        => exports_sheet = SubSeq(sheet_at_call, 1, keep_count)

-----------------------------------------------------------------------------
(***************************************************************************)
(* ingest_saberis_exports, saberis_ingestion.py 68-182.  A guid is a       *)
(* positive number; NoGuid is a header of the listing without a guid.      *)
(* The Saberis API may or may not go on listing a document that has been   *)
(* downloaded.  The function calls itself after it has appended rows; the  *)
(* interpreter's recursion limit is RecursionLimit.                        *)
(***************************************************************************)
MaxGuids == 2
MaxListed == 2
RecursionLimit == 2

NoGuid == 0
Guids == 1..MaxGuids

GuidsOf(rows) == [k \in 1..Len(rows) |-> rows[k].original_filename]

\* 78-116: the rows whose data cell parses and inflates give their guid
ProcessedGuids(sheet_records) ==
    {sheet_records[k].original_filename :
        k \in {j \in 1..Len(sheet_records) : sheet_records[j].data_ok}}

\* worksheet.findall(guid): the sheet rows holding the cell, top to bottom
RECURSIVE FindAll(_, _, _)
FindAll(sheet, guid, k) ==
    IF k > Len(sheet) THEN <<>>
    ELSE (IF sheet[k].original_filename = guid THEN <<k + 1>> ELSE <<>>)
         \o FindAll(sheet, guid, k + 1)

\* 172-175: all the cells but the first lose their row, the lowest first
Dedupe(sheet, guid) ==
    LET dup_cells == FindAll(sheet, guid, 1)
    IN  IF Len(dup_cells) > 1 THEN DeleteReversed(sheet, Tail(dup_cells))
        ELSE sheet

RECURSIVE DedupeAll(_, _)
DedupeAll(sheet, guids) ==
    IF guids = <<>> THEN sheet
    ELSE DedupeAll(Dedupe(sheet, Head(guids)), Tail(guids))

Without(docs, guid) == SelectSeq(docs, LAMBDA g : g # guid)

\* main.py:150 calls the function
IngestCall ==
    /\ ingest_pc = "returned"
    /\ ingest_pc' = "read"
    /\ requested' = <<>>
    /\ appended' = <<>>
    /\ depth' = 0
    /\ sheet_at_call' = exports_sheet
    /\ UNCHANGED <<exports_sheet, export_clock, keep_count, deleted, api_docs,
                   unexported_docs, doc_idx, processed_guids, new_rows, authVars,
                   parseVars, cmVars, synthVars, jobberVars, syncVars, keyVars,
                   headerVars, cmCallVars, readerVars>>

\* 73-122: the rows of the sheet are read, the listing is fetched
\* (None, a failed request, counts as an empty listing)
ReadSheetAndList ==
    /\ ingest_pc = "read"
    /\ processed_guids' = ProcessedGuids(exports_sheet)
    /\ unexported_docs' \in {api_docs, <<>>}
    /\ new_rows' = <<>>
    /\ doc_idx' = 1
    /\ ingest_pc' = "docs"
    /\ UNCHANGED <<exportVars, api_docs, requested, appended, depth, authVars,
                   parseVars, cmVars, synthVars, jobberVars, syncVars, keyVars,
                   headerVars, cmCallVars, readerVars>>

\* 125-127: if not guid or guid in processed_guids: continue
SkipDoc ==
    /\ ingest_pc = "docs"
    /\ doc_idx <= Len(unexported_docs)
    /\ LET guid == unexported_docs[doc_idx]
       IN  guid = NoGuid \/ guid \in processed_guids
    /\ doc_idx' = doc_idx + 1
    /\ UNCHANGED <<exportVars, ingest_pc, api_docs, unexported_docs, processed_guids,
                   new_rows, requested, appended, depth, authVars,
                   parseVars, cmVars, synthVars, jobberVars, syncVars, keyVars,
                   headerVars, cmCallVars, readerVars>>

\* 130-136: get_export_document_by_id returns None
DownloadFails ==
    /\ ingest_pc = "docs"
    /\ doc_idx <= Len(unexported_docs)
    /\ LET guid == unexported_docs[doc_idx]
       IN  /\ guid # NoGuid
           /\ guid \notin processed_guids
           /\ requested' = Append(requested, guid)
    /\ doc_idx' = doc_idx + 1
    /\ UNCHANGED <<exportVars, ingest_pc, api_docs, unexported_docs, processed_guids,
                   new_rows, appended, depth, authVars,
                   parseVars, cmVars, synthVars, jobberVars, syncVars, keyVars,
                   headerVars, cmCallVars, readerVars>>

\* 130-163: the document is downloaded and its row prepared
DownloadDoc ==
    /\ ingest_pc = "docs"
    /\ doc_idx <= Len(unexported_docs)
    /\ export_clock <= MaxIngestions
    /\ LET guid == unexported_docs[doc_idx]
       IN  /\ guid # NoGuid
           /\ guid \notin processed_guids
           /\ requested' = Append(requested, guid)
           /\ new_rows' = Append(new_rows, ExportRow(guid, export_clock, TRUE))
           /\ processed_guids' = processed_guids \cup {guid}
           /\ api_docs' \in {api_docs, Without(api_docs, guid)}
    /\ export_clock' = export_clock + 1
    /\ doc_idx' = doc_idx + 1
    /\ UNCHANGED <<exports_sheet, sheet_at_call, keep_count, deleted, ingest_pc,
                   unexported_docs, appended, depth, authVars,
                   parseVars, cmVars, synthVars, jobberVars, syncVars, keyVars,
                   headerVars, cmCallVars, readerVars>>

\* 167-178: append_rows, the duplicates of every new guid are removed,
\* and the function calls itself
AppendAndDedupe ==
    /\ ingest_pc = "docs"
    /\ doc_idx > Len(unexported_docs)
    /\ new_rows # <<>>
    /\ exports_sheet' = DedupeAll(AppendRows(exports_sheet, new_rows),
                                  GuidsOf(new_rows))
    /\ appended' = appended \o GuidsOf(new_rows)
    /\ IF depth < RecursionLimit
       THEN ingest_pc' = "read" /\ depth' = depth + 1
       ELSE ingest_pc' = "raised" /\ depth' = depth
    /\ UNCHANGED <<export_clock, sheet_at_call, keep_count, deleted, api_docs,
                   unexported_docs, doc_idx, processed_guids, new_rows, requested,
                   authVars, parseVars, cmVars, synthVars, jobberVars, syncVars,
                   keyVars, headerVars, cmCallVars, readerVars>>

\* 181-182: nothing new, the manifest is returned
ReturnManifest ==
    /\ ingest_pc = "docs"
    /\ doc_idx > Len(unexported_docs)
    /\ new_rows = <<>>
    /\ ingest_pc' = "returned"
    /\ UNCHANGED <<exportVars, api_docs, unexported_docs, doc_idx, processed_guids,
                   new_rows, requested, appended, depth, authVars,
                   parseVars, cmVars, synthVars, jobberVars, syncVars, keyVars,
                   headerVars, cmCallVars, readerVars>>

\* sheets as earlier runs left them: one row for a guid, oldest on top; a
\* data cell may have been damaged since
InitialSheets ==
    {sheet \in UNION {[1..n -> [original_filename : Guids, ingested_at : 1..MaxGuids,
                                data_ok : BOOLEAN]] : n \in 0..MaxGuids} :
        /\ \A k \in 1..Len(sheet) : sheet[k].ingested_at = k
        /\ \A j, k \in 1..Len(sheet) :
               j # k => sheet[j].original_filename # sheet[k].original_filename}

Listings == UNION {[1..n -> Guids \cup {NoGuid}] : n \in 0..MaxListed}

InitIngest ==
    /\ exports_sheet \in InitialSheets
    /\ export_clock = Len(exports_sheet) + 1
    /\ sheet_at_call = exports_sheet
    /\ keep_count = 0
    /\ deleted = NotPruned
    /\ ingest_pc = "returned"
    /\ api_docs \in Listings
    /\ unexported_docs = <<>>
    /\ doc_idx = 1
    /\ processed_guids = {}
    /\ new_rows = <<>>
    /\ requested = <<>>
    /\ appended = <<>>
    /\ depth = 0
    /\ AuthIdle
    /\ OthersAtRest

NextIngest ==
    \/ IngestCall
    \/ ReadSheetAndList
    \/ SkipDoc
    \/ DownloadFails
    \/ DownloadDoc
    \/ AppendAndDedupe
    \/ ReturnManifest

SpecIngest == InitIngest /\ [][NextIngest]_vars

-----------------------------------------------------------------------------
(***************************************************************************)
(* Claims about the ingestion                                              *)
(***************************************************************************)
RecordedGuids(sheet) == {r.original_filename : r \in RowsOf(sheet)}

RowsWith(sheet, guid) == {k \in 1..Len(sheet) : sheet[k].original_filename = guid}

Occurrences(seq, x) == Cardinality({k \in 1..Len(seq) : seq[k] = x})

\* a step that asks the Saberis API for a document
AsksFor(guid) == requested' = Append(requested, guid)

\* C30: ingest_saberis_exports never stores a document twice: a document
\* whose guid is recorded in a row of the sheet is neither downloaded nor
\* appended again, a guid listed more than once is appended at most once
\* per run, and when the function returns every ingested guid is in at
\* most one row of the sheet.
C30_NeverStoredTwice ==
    /\ [][ \A guid \in Guids :
             AsksFor(guid) => guid \notin RecordedGuids(exports_sheet) ]_vars
    /\ [](\A guid \in Guids : Occurrences(GuidsOf(new_rows), guid) <= 1)
    /\ [](ingest_pc = "returned" =>
             \A guid \in Guids :
                 Occurrences(appended, guid) > 0
                     => Cardinality(RowsWith(exports_sheet, guid)) <= 1)

\* the parts of it that hold: a guid recorded in a row whose data cell is
\* sound is not asked for, a pass appends a guid once, and no guid is left
\* in two rows
C30_SoundRowsNotDownloaded ==
    [][ \A guid \in Guids :
          AsksFor(guid) => guid \notin ProcessedGuids(exports_sheet) ]_vars

C30_OncePerPass ==
    \A guid \in Guids : Occurrences(GuidsOf(new_rows), guid) <= 1

C30_OneRowAtReturn ==
    ingest_pc \in {"returned", "read", "raised"} =>
        \A guid \in Guids : Cardinality(RowsWith(exports_sheet, guid)) <= 1

-----------------------------------------------------------------------------
(***************************************************************************)
(* The OAuth state: jobber_auth_flow.py 18-49 and the two routes of        *)
(* main.py (439-482).  secrets.token_urlsafe(32) gives a value never given *)
(* before: the n-th authorization start issues the state n.  NoState is    *)
(* None or the empty string.  NonAscii is a received string with a         *)
(* character outside ASCII, on which secrets.compare_digest raises         *)
(* TypeError.  A route runs from its first statement to its last before    *)
(* the next request is taken.                                              *)
(***************************************************************************)
MaxStarts == 3

NonAscii == 0 - 1
IssuedStates == 1..MaxStarts
\* what a request can carry: nothing, any state issued so far or later,
\* a string never issued, a string outside ASCII
Forged == MaxStarts + 1
ReceivedStates == {NoState, NonAscii, Forged} \cup IssuedStates

\* verify_state_parameter as it would be without line 46
VerifyStateParameterKeepsStore(stored, received_state) ==
    IF stored = NoState \/ received_state = NoState
    THEN [store |-> stored, returned |-> "false"]
    ELSE IF received_state = NonAscii
         THEN [store |-> stored, returned |-> "raised"]
         ELSE [store |-> stored,
               returned |-> IF stored = received_state THEN "true" ELSE "false"]

\* verify_state_parameter(received_state): the store afterwards and the
\* value returned ("raised": the TypeError of compare_digest leaves it)
VerifyStateParameter(stored, received_state) ==
    IF stored = NoState \/ received_state = NoState
    THEN [store |-> stored, returned |-> "false"]
    ELSE IF received_state = NonAscii
         THEN [store |-> stored, returned |-> "raised"]
         ELSE [store |-> NoState,
               returned |-> IF stored = received_state THEN "true" ELSE "false"]

\* /authorize_jobber_start: get_authorization_url()
AuthorizeJobberRoute ==
    /\ issued < MaxStarts
    /\ issued' = issued + 1
    /\ oauth_state_store' = issued + 1
    /\ UNCHANGED <<callback, accepted, exportVars, ingestVars,
                   parseVars, cmVars, synthVars, jobberVars, syncVars, keyVars,
                   headerVars, cmCallVars, readerVars>>

\* /jobber/callback with the state received, with or without a code, the
\* exchange of the code succeeding or not
JobberCallbackRoute ==
    \E received_state \in ReceivedStates, code \in BOOLEAN, success \in BOOLEAN :
        LET verified == VerifyStateParameter(oauth_state_store, received_state)
            outcome == IF verified.returned = "raised" THEN "raised"
                       ELSE IF verified.returned = "false" THEN "invalid_state"
                       ELSE IF ~code THEN "no_code"
                       ELSE IF success THEN "authorized"
                       ELSE "exchange_failed"
        IN  /\ oauth_state_store' = verified.store
            /\ callback' = [received |-> received_state,
                            stored |-> oauth_state_store,
                            outcome |-> outcome]
            /\ accepted' = IF verified.returned = "true"
                           THEN Append(accepted, received_state)
                           ELSE accepted
            /\ UNCHANGED <<issued, exportVars, ingestVars,
                           parseVars, cmVars, synthVars, jobberVars, syncVars,
                           keyVars, headerVars, cmCallVars, readerVars>>

InitAuth ==
    /\ AuthIdle
    /\ ExportsIdle
    /\ IngestIdle
    /\ OthersAtRest

NextAuth == AuthorizeJobberRoute \/ JobberCallbackRoute

SpecAuth == InitAuth /\ [][NextAuth]_vars

-----------------------------------------------------------------------------
(***************************************************************************)
(* Claims about the OAuth state                                            *)
(***************************************************************************)
StateAccepted == callback.outcome \in {"no_code", "authorized", "exchange_failed"}

\* a callback on which verify_state_parameter compared the two states and
\* returned
Compared ==
    /\ callback.stored # NoState
    /\ callback.received # NoState
    /\ callback.outcome # "raised"

\* C29: a state issued by get_authorization_url is accepted at most once;
\* after a verification that compared the received state with the stored
\* one the store is cleared, whether they matched or not, so that every
\* later callback is rejected until a new authorization URL is generated;
\* and a callback is accepted only with the state of the most recent
\* authorization start.
C29_StateAcceptedOnce ==
    /\ [](\A n \in ReceivedStates : Occurrences(accepted, n) <= 1)
    /\ [][ (callback' # callback /\ Compared')
              => oauth_state_store' = NoState ]_vars
    /\ [][ (accepted' # accepted \/ callback' # callback) /\ oauth_state_store = NoState
              => (accepted' = accepted /\ callback'.outcome = "invalid_state") ]_vars
    /\ [][ accepted' # accepted
              => (/\ issued > 0
                  /\ callback'.received = issued
                  /\ accepted' = Append(accepted, issued)) ]_vars

\* a second authorization was accepted and the state of the first,
\* presented again, was turned down
C29_Witness ==
    /\ Len(accepted) = 2
    /\ callback.received = accepted[1]
    /\ callback.outcome = "invalid_state"

\* the accepted state presented again right after its acceptance
C29_WitnessReplay ==
    /\ Len(accepted) = 1
    /\ callback.received = accepted[1]
    /\ callback.stored = NoState
    /\ callback.outcome = "invalid_state"

====
